---------------------------- MODULE Spec2Model ----------------------------
(***************************************************************************)
(* A model of serve.c, the single-threaded static file and JSON API HTTP   *)
(* server of the portfolio builder (POSIX build: the #else branches).      *)
(*                                                                         *)
(* Text is modelled as the code sees it: a C string is a sequence of byte  *)
(* values (0..255), a pointer into a buffer is a 1-based index and the     *)
(* null pointer is index 0.  The str* functions stop at the first NUL      *)
(* byte; mem* functions and fwrite do not.                                 *)
(***************************************************************************)
EXTENDS Integers, Sequences, FiniteSets, TLC

(***************************************************************************)
(* Bounds of the model (not program constants).                            *)
(***************************************************************************)
\* longest request target of the path family, in tokens
MaxTokens == 3
\* longest request body of the save family, in bytes
MaxBody == 2
\* most body bytes in the first read, when it does not hold the whole request
MaxFirst == 1
\* largest partial read of the read loop, in bytes
MaxChunk == 1
\* the value atol reports for a digit string too long for the model's integers
LongSat == 999999999

(***************************************************************************)
(* Program constants.                                                      *)
(***************************************************************************)
\* char buf[65536] in handle_request
BufSize == 65536
\* char method[16], read with %15s
MethodMax == 15
\* char raw_path[1024], read with %1023s; char path[1024]
PathMax == 1023
\* 10 * 1024 * 1024 in read_request_body
MaxContentLength == 10485760
\* char line[1024]; char repo[1024] in the deploy-config handlers
LineSize == 1024
\* char json[2048] in handle_api_deploy_config_get
JsonSize == 2048
\* char body[256] in send_error
ErrBodySize == 256
\* int port = 9090 in main
DefaultPort == 9090
\* port > 65535 in main
MaxPort == 65535
\* the largest int
IntMax == 2147483647

(***************************************************************************)
(* String literals of the program, as byte sequences.                      *)
(***************************************************************************)
\* "POST"
s_POST == <<80, 79, 83, 84>>
\* "GET"
s_GET == <<71, 69, 84>>
\* "DELETE"
s_DELETE == <<68, 69, 76, 69, 84, 69>>
\* "/api/save"
s_api_save == <<47, 97, 112, 105, 47, 115, 97, 118, 101>>
\* "/api/build"
s_api_build == <<47, 97, 112, 105, 47, 98, 117, 105, 108, 100>>
\* "/api/deploy"
s_api_deploy == <<47, 97, 112, 105, 47, 100, 101, 112, 108, 111, 121>>
\* "/api/deploy-config"
s_api_deploy_config ==
  <<47, 97, 112, 105, 47, 100, 101, 112, 108, 111, 121, 45, 99, 111, 110, 102, 105, 103>>
\* "Content-Length:"
s_Content_Length ==
  <<67, 111, 110, 116, 101, 110, 116, 45, 76, 101, 110, 103, 116, 104, 58>>
\* "content-length:"
s_content_length ==
  <<99, 111, 110, 116, 101, 110, 116, 45, 108, 101, 110, 103, 116, 104, 58>>
\* "\r\n"
s_CRLF == <<13, 10>>
\* "\r\n\r\n"
s_CRLFCRLF == <<13, 10, 13, 10>>
\* " HTTP/1.1"
s_HTTP11 == <<32, 72, 84, 84, 80, 47, 49, 46, 49>>
\* "manage.html"
s_manage_html == <<109, 97, 110, 97, 103, 101, 46, 104, 116, 109, 108>>
\* "index.html"
s_index_html == <<105, 110, 100, 101, 120, 46, 104, 116, 109, 108>>
\* "crissy-data.json"
s_crissy_data_json ==
  <<99, 114, 105, 115, 115, 121, 45, 100, 97, 116, 97, 46, 106, 115, 111, 110>>
\* "deploy.conf"
s_deploy_conf == <<100, 101, 112, 108, 111, 121, 46, 99, 111, 110, 102>>
\* "portfolio-build"
s_portfolio_build ==
  <<112, 111, 114, 116, 102, 111, 108, 105, 111, 45, 98, 117, 105, 108, 100>>
\* "build.go"
s_build_go == <<98, 117, 105, 108, 100, 46, 103, 111>>
\* "deploy/deploy"
s_deploy_deploy == <<100, 101, 112, 108, 111, 121, 47, 100, 101, 112, 108, 111, 121>>
\* "deploy/deploy.c"
s_deploy_deploy_c ==
  <<100, 101, 112, 108, 111, 121, 47, 100, 101, 112, 108, 111, 121, 46, 99>>
\* "<html><body><h1>"
s_html_open == <<60, 104, 116, 109, 108, 62, 60, 98, 111, 100, 121, 62, 60, 104, 49, 62>>
\* "</h1></body></html>"
s_html_close ==
  <<60, 47, 104, 49, 62, 60, 47, 98, 111, 100, 121, 62, 60, 47, 104, 116, 109, 108, 62>>
\* "Bad Request"
s_Bad_Request == <<66, 97, 100, 32, 82, 101, 113, 117, 101, 115, 116>>
\* "Not Found"
s_Not_Found == <<78, 111, 116, 32, 70, 111, 117, 110, 100>>
\* "Forbidden"
s_Forbidden == <<70, 111, 114, 98, 105, 100, 100, 101, 110>>
\* "Method Not Allowed"
s_Method_Not_Allowed ==
  <<77, 101, 116, 104, 111, 100, 32, 78, 111, 116, 32, 65, 108, 108, 111, 119, 101, 100>>
\* "Internal Server Error"
s_Internal_Server_Error ==
  <<73, 110, 116, 101, 114, 110, 97, 108, 32, 83, 101, 114, 118, 101, 114, 32, 69, 114,
    114, 111, 114>>
\* "OK"
s_OK == <<79, 75>>
\* "{"error":"Failed to write crissy-data.json"}"
msg_save_failed ==
  <<123, 34, 101, 114, 114, 111, 114, 34, 58, 34, 70, 97, 105, 108, 101, 100, 32, 116,
    111, 32, 119, 114, 105, 116, 101, 32, 99, 114, 105, 115, 115, 121, 45, 100, 97, 116,
    97, 46, 106, 115, 111, 110, 34, 125>>
\* "{"ok":true,"message":"Saved crissy-data.json"}"
msg_save_ok ==
  <<123, 34, 111, 107, 34, 58, 116, 114, 117, 101, 44, 34, 109, 101, 115, 115, 97, 103,
    101, 34, 58, 34, 83, 97, 118, 101, 100, 32, 99, 114, 105, 115, 115, 121, 45, 100,
    97, 116, 97, 46, 106, 115, 111, 110, 34, 125>>
\* "{"error":"No build tool found (portfolio-build or build.go)"}"
msg_no_build_tool ==
  <<123, 34, 101, 114, 114, 111, 114, 34, 58, 34, 78, 111, 32, 98, 117, 105, 108, 100,
    32, 116, 111, 111, 108, 32, 102, 111, 117, 110, 100, 32, 40, 112, 111, 114, 116,
    102, 111, 108, 105, 111, 45, 98, 117, 105, 108, 100, 32, 111, 114, 32, 98, 117, 105,
    108, 100, 46, 103, 111, 41, 34, 125>>
\* "{"ok":true,"message":"Build completed successfully"}"
msg_build_ok ==
  <<123, 34, 111, 107, 34, 58, 116, 114, 117, 101, 44, 34, 109, 101, 115, 115, 97, 103,
    101, 34, 58, 34, 66, 117, 105, 108, 100, 32, 99, 111, 109, 112, 108, 101, 116, 101,
    100, 32, 115, 117, 99, 99, 101, 115, 115, 102, 117, 108, 108, 121, 34, 125>>
\* "{"error":"Build failed. Check terminal for details."}"
msg_build_failed ==
  <<123, 34, 101, 114, 114, 111, 114, 34, 58, 34, 66, 117, 105, 108, 100, 32, 102, 97,
    105, 108, 101, 100, 46, 32, 67, 104, 101, 99, 107, 32, 116, 101, 114, 109, 105, 110,
    97, 108, 32, 102, 111, 114, 32, 100, 101, 116, 97, 105, 108, 115, 46, 34, 125>>
\* "{"error":"Failed to write deploy.conf"}"
msg_conf_failed ==
  <<123, 34, 101, 114, 114, 111, 114, 34, 58, 34, 70, 97, 105, 108, 101, 100, 32, 116,
    111, 32, 119, 114, 105, 116, 101, 32, 100, 101, 112, 108, 111, 121, 46, 99, 111,
    110, 102, 34, 125>>
\* "{"ok":true,"message":"Deploy config saved"}"
msg_conf_ok ==
  <<123, 34, 111, 107, 34, 58, 116, 114, 117, 101, 44, 34, 109, 101, 115, 115, 97, 103,
    101, 34, 58, 34, 68, 101, 112, 108, 111, 121, 32, 99, 111, 110, 102, 105, 103, 32,
    115, 97, 118, 101, 100, 34, 125>>
\* "{"error":"deploy binary not compiled. Run: cd deploy && cc -O2 -o deploy deploy.c"}"
msg_deploy_not_compiled ==
  <<123, 34, 101, 114, 114, 111, 114, 34, 58, 34, 100, 101, 112, 108, 111, 121, 32, 98,
    105, 110, 97, 114, 121, 32, 110, 111, 116, 32, 99, 111, 109, 112, 105, 108, 101,
    100, 46, 32, 82, 117, 110, 58, 32, 99, 100, 32, 100, 101, 112, 108, 111, 121, 32,
    38, 38, 32, 99, 99, 32, 45, 79, 50, 32, 45, 111, 32, 100, 101, 112, 108, 111, 121,
    32, 100, 101, 112, 108, 111, 121, 46, 99, 34, 125>>
\* "{"error":"No deploy tool found in deploy/ directory"}"
msg_no_deploy_tool ==
  <<123, 34, 101, 114, 114, 111, 114, 34, 58, 34, 78, 111, 32, 100, 101, 112, 108, 111,
    121, 32, 116, 111, 111, 108, 32, 102, 111, 117, 110, 100, 32, 105, 110, 32, 100,
    101, 112, 108, 111, 121, 47, 32, 100, 105, 114, 101, 99, 116, 111, 114, 121, 34, 125>>
\* "{"ok":true,"message":"Deploy completed successfully"}"
msg_deploy_ok ==
  <<123, 34, 111, 107, 34, 58, 116, 114, 117, 101, 44, 34, 109, 101, 115, 115, 97, 103,
    101, 34, 58, 34, 68, 101, 112, 108, 111, 121, 32, 99, 111, 109, 112, 108, 101, 116,
    101, 100, 32, 115, 117, 99, 99, 101, 115, 115, 102, 117, 108, 108, 121, 34, 125>>
\* "{"error":"Deploy failed. Check terminal for details."}"
msg_deploy_failed ==
  <<123, 34, 101, 114, 114, 111, 114, 34, 58, 34, 68, 101, 112, 108, 111, 121, 32, 102,
    97, 105, 108, 101, 100, 46, 32, 67, 104, 101, 99, 107, 32, 116, 101, 114, 109, 105,
    110, 97, 108, 32, 102, 111, 114, 32, 100, 101, 116, 97, 105, 108, 115, 46, 34, 125>>
\* ""repo""
s_repo_key == <<34, 114, 101, 112, 111, 34>>
\* "repo="
s_repo_eq == <<114, 101, 112, 111, 61>>
\* "{"repo":""
s_json_repo_open == <<123, 34, 114, 101, 112, 111, 34, 58, 34>>
\* ""}"
s_json_repo_close == <<34, 125>>
\* "# deploy.conf - GitHub Pages deploy target\n"
s_conf_comment ==
  <<35, 32, 100, 101, 112, 108, 111, 121, 46, 99, 111, 110, 102, 32, 45, 32, 71, 105,
    116, 72, 117, 98, 32, 80, 97, 103, 101, 115, 32, 100, 101, 112, 108, 111, 121, 32,
    116, 97, 114, 103, 101, 116, 10>>
\* "{"error":""
s_json_error_open == <<123, 34, 101, 114, 114, 111, 114, 34, 58, 34>>
\* "<html>"
s_html_tag == <<60, 104, 116, 109, 108, 62>>
\* ".."
s_dotdot == <<46, 46>>

(***************************************************************************)
(* C library helpers.                                                      *)
(***************************************************************************)
Min(a, b) == IF a <= b THEN a ELSE b

Max(a, b) == IF a >= b THEN a ELSE b

MinOf(S) == CHOOSE x \in S : \A y \in S : x <= y

\* index of the first NUL byte of a buffer, Len+1 when it has none
NulAt(s) ==
  LET z == {i \in 1..Len(s) : s[i] = 0}
  IN  IF z = {} THEN Len(s) + 1 ELSE MinOf(z)

\* the C string held by a buffer: the bytes before its first NUL
CStr(s) == SubSeq(s, 1, NulAt(s) - 1)

\* the C string that starts at index i of a buffer
CStrFrom(s, i) == CStr(SubSeq(s, i, Len(s)))

\* strstr: index of the first occurrence of p in the C string of h, 0 if none
StrStr(h, p) ==
  LET s    == CStr(h)
      hits == {i \in 1..(Len(s) - Len(p) + 1) : SubSeq(s, i, i + Len(p) - 1) = p}
  IN  IF hits = {} THEN 0 ELSE MinOf(hits)

\* strchr from index i on: index of the first byte c at or after i, 0 if none
StrChr(h, i, c) ==
  LET s    == CStr(h)
      hits == {j \in i..Len(s) : s[j] = c}
  IN  IF i = 0 \/ hits = {} THEN 0 ELSE MinOf(hits)

\* strrchr: index of the last byte c, 0 if none
StrRChr(h, c) ==
  LET s    == CStr(h)
      hits == {j \in 1..Len(s) : s[j] = c}
  IN  IF hits = {} THEN 0 ELSE CHOOSE x \in hits : \A y \in hits : y <= x

\* isspace in the C locale
IsSpace(c) == c \in {9, 10, 11, 12, 13, 32}

IsDigit(c) == c \in 48..57

IsHex(c) == c \in (48..57) \cup (65..70) \cup (97..102)

HexVal(c) == IF c \in 48..57 THEN c - 48 ELSE IF c \in 65..70 THEN c - 55 ELSE c - 87

\* first index at or after i that holds no white space (Len+1 at the end)
SkipSpace(s, i) ==
  LET stop == {j \in i..Len(s) : ~IsSpace(s[j])}
  IN  IF stop = {} THEN Len(s) + 1 ELSE MinOf(stop)

\* the run of at most max non-space bytes that starts at index i (scanf %Ns)
Token(s, i, max) ==
  LET stop == {j \in i..Len(s) : IsSpace(s[j])}
      end  == IF stop = {} THEN Len(s) ELSE MinOf(stop) - 1
  IN  SubSeq(s, i, Min(end, i + max - 1))

\* the run of decimal digits that starts at index i
DigitsFrom(s, i) ==
  LET stop == {j \in i..Len(s) : ~IsDigit(s[j])}
      end  == IF stop = {} THEN Len(s) ELSE MinOf(stop) - 1
  IN  SubSeq(s, i, end)

\* value of a digit string, accumulated left to right as strtol does; a value
\* past the range kept here is reported as LongSat (the reader rejects all alike)
RECURSIVE DecAcc(_, _, _)
DecAcc(d, i, acc) ==
  IF i > Len(d) THEN acc
  ELSE DecAcc(d, i + 1, IF acc >= 100000000 THEN LongSat ELSE acc * 10 + (d[i] - 48))

DecVal(d) == DecAcc(d, 1, 0)

\* atol on the C string at index i: white space, an optional sign, digits
Atol(h, i) ==
  LET s   == CStr(h)
      j   == SkipSpace(s, i)
      neg == j <= Len(s) /\ s[j] = 45
      k   == IF j <= Len(s) /\ s[j] \in {43, 45} THEN j + 1 ELSE j
      v   == DecVal(DigitsFrom(s, k))
  IN  IF neg THEN 0 - v ELSE v

\* a digit string without its leading zeros
RECURSIVE StripZeros(_)
StripZeros(d) == IF Len(d) > 1 /\ d[1] = 48 THEN StripZeros(Tail(d)) ELSE d

\* of two digit strings of one length, the first is the greater number
RECURSIVE DigitsGreater(_, _)
DigitsGreater(a, b) ==
  IF a = <<>> THEN FALSE
  ELSE IF a[1] # b[1] THEN a[1] > b[1]
  ELSE DigitsGreater(Tail(a), Tail(b))

\* the digits of IntMax
IntMaxDigits == <<50, 49, 52, 55, 52, 56, 51, 54, 52, 55>>

\* the number a digit string writes does not fit an int
OverInt(d) ==
  LET z == StripZeros(d)
  IN  Len(z) > Len(IntMaxDigits) \/ (Len(z) = Len(IntMaxDigits) /\ DigitsGreater(z, IntMaxDigits))

\* atoi(s), as the set of values it may return: the value of the digits when
\* it fits an int (as Atol reports it), and otherwise, the behaviour being
\* undefined, any int: a negative one, a small positive one or the largest
atoi(s) ==
  LET c == CStr(s)
      j == SkipSpace(c, 1)
      k == IF j <= Len(c) /\ c[j] \in {43, 45} THEN j + 1 ELSE j
  IN  IF OverInt(DigitsFrom(c, k)) THEN {-1, 80, IntMax} ELSE {Atol(s, 1)}

\* snprintf("%d") of a non-negative number
RECURSIVE Dec(_)
Dec(n) == IF n < 10 THEN <<48 + n>> ELSE Dec(n \div 10) \o <<48 + (n % 10)>>

\* strtol(hex, NULL, 16) on the two bytes of a %XX escape, cast to char
Strtol16(c1, c2) ==
  LET v == IF c1 \in {43, 45}
             THEN (IF IsHex(c2) THEN (IF c1 = 45 THEN 0 - HexVal(c2) ELSE HexVal(c2)) ELSE 0)
           ELSE IF IsHex(c1)
             THEN (IF IsHex(c2) THEN 16 * HexVal(c1) + HexVal(c2) ELSE HexVal(c1))
           ELSE 0
  IN  (v + 256) % 256

(***************************************************************************)
(* Request line parsing, percent-decoding and the path sanitizer.          *)
(***************************************************************************)
\* sscanf(buf, "%15s %1023s", method, raw_path): both stay "" when not read
ScanRequestLine(buf) ==
  LET s  == CStr(buf)
      i1 == SkipSpace(s, 1)
      m  == Token(s, i1, MethodMax)
      i2 == SkipSpace(s, i1 + Len(m))
      t  == Token(s, i2, PathMax)
  IN  IF m = <<>> THEN [method |-> <<>>, raw_path |-> <<>>]
      ELSE [method |-> m, raw_path |-> t]

\* StripQuery cutting at the last '?', as strrchr would
StripQuery_last(raw) ==
  LET q == StrRChr(raw, 63)
  IN  IF q = 0 THEN raw ELSE SubSeq(raw, 1, q - 1)

\* strchr(raw_path, '?') and the cut at it
StripQuery(raw) ==
  LET q == StrChr(raw, 1, 63)
  IN  IF q = 0 THEN raw ELSE SubSeq(raw, 1, q - 1)

\* the %XX loop of handle_request: the bytes written to path[], before its NUL
RECURSIVE UrlDecodeFrom(_, _, _)
UrlDecodeFrom(raw, i, out) ==
  IF i > Len(raw) \/ Len(out) >= PathMax THEN out
  ELSE IF raw[i] = 37 /\ i + 2 <= Len(raw)
    THEN UrlDecodeFrom(raw, i + 3, Append(out, Strtol16(raw[i + 1], raw[i + 2])))
    ELSE UrlDecodeFrom(raw, i + 1, Append(out, raw[i]))

\* path[] as a C string: a decoded NUL byte ends it
UrlDecode(raw) == CStr(UrlDecodeFrom(raw, 1, <<>>))

\* path_is_safe with "../" tested in place of ".."
path_is_safe_slash(path) ==
  IF StrStr(path, <<46, 46, 47>>) # 0 THEN FALSE
  ELSE LET i == IF Len(path) >= 1 /\ path[1] = 47 THEN 2 ELSE 1
           j == IF Len(path) >= i /\ path[i] = 92 THEN i + 1 ELSE i
           rest == SubSeq(path, j, Len(path))
       IN  ~(Len(rest) >= 2 /\ rest[2] = 58)

\* path_is_safe with the drive-letter test asking for a letter before the ':'
path_is_safe_letter(path) ==
  IF StrStr(path, s_dotdot) # 0 THEN FALSE
  ELSE LET i == IF Len(path) >= 1 /\ path[1] = 47 THEN 2 ELSE 1
           j == IF Len(path) >= i /\ path[i] = 92 THEN i + 1 ELSE i
           rest == SubSeq(path, j, Len(path))
       IN  ~(Len(rest) >= 2 /\ rest[2] = 58
               /\ rest[1] \in (65..90) \cup (97..122))

\* a leading '/' skipped, then a leading '\' skipped, then the drive-letter test
path_is_safe(path) ==
  IF StrStr(path, s_dotdot) # 0 THEN FALSE
  ELSE LET i == IF Len(path) >= 1 /\ path[1] = 47 THEN 2 ELSE 1
           j == IF Len(path) >= i /\ path[i] = 92 THEN i + 1 ELSE i
           rest == SubSeq(path, j, Len(path))
       IN  ~(Len(rest) >= 2 /\ rest[2] = 58)

\* FilePath with index.html as the document of the root
FilePath_index(path) ==
  LET rel == IF Len(path) >= 1 /\ path[1] = 47 THEN SubSeq(path, 2, Len(path)) ELSE path
  IN  IF rel = <<>> THEN s_index_html ELSE rel

\* rel and filepath of handle_request: one leading '/' dropped, "" is manage.html
FilePath(path) ==
  LET rel == IF Len(path) >= 1 /\ path[1] = 47 THEN SubSeq(path, 2, Len(path)) ELSE path
  IN  IF rel = <<>> THEN s_manage_html ELSE rel

(***************************************************************************)
(* The file system the server runs in.  A path names the entry reached by  *)
(* its components from the working directory, or from the root when it     *)
(* begins with '/'; "" and "." components are skipped.                     *)
(***************************************************************************)
RECURSIVE SplitPath(_, _, _, _)
SplitPath(p, i, cur, acc) ==
  LET keep(c) == IF c = <<>> \/ c = <<46>> THEN acc ELSE Append(acc, c)
  IN  IF i > Len(p) THEN keep(cur)
      ELSE IF p[i] = 47 THEN SplitPath(p, i + 1, <<>>, keep(cur))
      ELSE SplitPath(p, i + 1, Append(cur, p[i]), acc)

\* the key of a path: whether it is absolute, and its components
PathKey(p) == [abs |-> Len(p) >= 1 /\ p[1] = 47, comps |-> SplitPath(p, 1, <<>>, <<>>)]

\* the path must name a directory: it ends in '/' or in a "." component
NeedsDir(p) ==
  Len(p) >= 1 /\ (p[Len(p)] = 47 \/ (p[Len(p)] = 46 /\ (Len(p) = 1 \/ p[Len(p) - 1] = 47)))

NoEnt == [kind |-> "none", data |-> <<>>]

Dir == [kind |-> "dir", data |-> <<>>]

File(d) == [kind |-> "file", data |-> d]

\* stat(path): the entry found, NoEnt when stat fails
Stat(f, path) ==
  LET p == CStr(path)
      k == PathKey(p)
  IN  IF p = <<>> THEN NoEnt
      ELSE IF k.comps = <<>> THEN Dir
      ELSE IF k \notin DOMAIN f THEN NoEnt
      ELSE IF f[k].kind = "file" /\ NeedsDir(p) THEN NoEnt
      ELSE f[k]

Rel(name) == [abs |-> FALSE, comps |-> <<name>>]

(***************************************************************************)
(* MIME types.                                                             *)
(***************************************************************************)
mime_table ==
  << <<<<46, 104, 116, 109, 108>>, "text/html; charset=utf-8">>,           \* .html
     <<<<46, 104, 116, 109>>, "text/html; charset=utf-8">>,                \* .htm
     <<<<46, 99, 115, 115>>, "text/css; charset=utf-8">>,                  \* .css
     <<<<46, 106, 115>>, "application/javascript; charset=utf-8">>,        \* .js
     <<<<46, 106, 115, 111, 110>>, "application/json; charset=utf-8">>,    \* .json
     <<<<46, 112, 110, 103>>, "image/png">>,                               \* .png
     <<<<46, 106, 112, 103>>, "image/jpeg">>,                              \* .jpg
     <<<<46, 106, 112, 101, 103>>, "image/jpeg">>,                         \* .jpeg
     <<<<46, 103, 105, 102>>, "image/gif">>,                               \* .gif
     <<<<46, 115, 118, 103>>, "image/svg+xml">>,                           \* .svg
     <<<<46, 105, 99, 111>>, "image/x-icon">>,                             \* .ico
     <<<<46, 116, 120, 116>>, "text/plain; charset=utf-8">>,               \* .txt
     <<<<46, 109, 100>>, "text/plain; charset=utf-8">>,                    \* .md
     <<<<46, 119, 111, 102, 102>>, "font/woff">>,                          \* .woff
     <<<<46, 119, 111, 102, 102, 50>>, "font/woff2">>,                     \* .woff2
     <<<<46, 116, 116, 102>>, "font/ttf">>,                                \* .ttf
     <<<<46, 120, 109, 108>>, "application/xml">> >>                       \* .xml

\* get_mime with strncmp over the length of ext in place of strcmp
get_mime_prefix(path) ==
  LET s    == CStr(path)
      dot  == StrRChr(s, 46)
      suf  == SubSeq(s, dot, Len(s))
      hits == {i \in 1..Len(mime_table) :
                 /\ Len(suf) >= Len(mime_table[i][1])
                 /\ SubSeq(suf, 1, Len(mime_table[i][1])) = mime_table[i][1]}
  IN  IF dot = 0 \/ hits = {} THEN "application/octet-stream"
      ELSE mime_table[MinOf(hits)][2]

\* strrchr(path, '.') and the first table entry whose ext equals the suffix
get_mime(path) ==
  LET s    == CStr(path)
      dot  == StrRChr(s, 46)
      suf  == SubSeq(s, dot, Len(s))
      hits == {i \in 1..Len(mime_table) : mime_table[i][1] = suf}
  IN  IF dot = 0 \/ hits = {} THEN "application/octet-stream"
      ELSE mime_table[MinOf(hits)][2]

(***************************************************************************)
(* Send helpers.  A response is the status line, the header lines in the   *)
(* order send_response prints them, and the body bytes handed to it.       *)
(***************************************************************************)
\* snprintf into a buffer of size bytes: what the buffer holds, what it returns
Snprintf(size, s) == [text |-> SubSeq(s, 1, Min(Len(s), size - 1)), ret |-> Len(s)]

\* the header block is built from short literals and fits header[1024]
send_response(status, status_text, content_type, body, body_len) ==
  [status  |-> status,
   reason  |-> status_text,
   headers |-> << <<"Content-Type", content_type>>,
                  <<"Content-Length", body_len>>,
                  <<"Connection", "close">>,
                  <<"Access-Control-Allow-Origin", "*">> >>,
   body    |-> body]

send_error(status, text) ==
  LET b == Snprintf(ErrBodySize, s_html_open \o Dec(status) \o <<32>> \o text \o s_html_close)
  IN  send_response(status, text, "text/html; charset=utf-8", b.text, b.ret)

\* a literal JSON message, sent with strlen(msg) as its length
send_json(status, text, msg) ==
  send_response(status, text, "application/json; charset=utf-8", msg, Len(CStr(msg)))

\* send_file with strlen(buf) sent in place of fsize
send_file_strlen(f, filepath, fopenOk, mallocOk) ==
  LET e == Stat(f, filepath)
  IN  IF e.kind = "none" \/ ~fopenOk THEN send_error(404, s_Not_Found)
      ELSE IF ~mallocOk THEN send_error(500, s_Internal_Server_Error)
      ELSE send_response(200, s_OK, get_mime(filepath), e.data, Len(CStr(e.data)))

\* fopen, ftell, malloc(fsize), fread and the 200 response
send_file(f, filepath, fopenOk, mallocOk) ==
  LET e == Stat(f, filepath)
  IN  IF e.kind = "none" \/ ~fopenOk THEN send_error(404, s_Not_Found)
      ELSE IF ~mallocOk THEN send_error(500, s_Internal_Server_Error)
      ELSE send_response(200, s_OK, get_mime(filepath), e.data, Len(e.data))

(***************************************************************************)
(* The body reader.                                                        *)
(***************************************************************************)
\* read_request_body up to its read loop: ok is FALSE where it returns NULL
ReadBodyStart(buf, already_read, mallocOk) ==
  LET cs  == StrStr(buf, s_Content_Length)
      cl  == IF cs # 0 THEN cs ELSE StrStr(buf, s_content_length)
      content_length == IF cl = 0 THEN 0 ELSE Atol(buf, cl + 15)
      bs  == StrStr(buf, s_CRLFCRLF)
      header_len   == bs + 3
      body_already == Min(Max(already_read - header_len, 0), content_length)
  IN  IF cl = 0 \/ content_length <= 0 \/ content_length > MaxContentLength
         \/ bs = 0 \/ ~mallocOk
        THEN [ok |-> FALSE, body |-> <<>>, remaining |-> 0]
        ELSE [ok |-> TRUE,
              body |-> SubSeq(buf, header_len + 1, header_len + body_already),
              remaining |-> content_length - body_already]

(***************************************************************************)
(* The JSON API handlers, from the point where the body has been read.     *)
(* Each yields the response sent and the file system it leaves.            *)
(***************************************************************************)
CrissyKey == Rel(s_crissy_data_json)

ConfKey == Rel(s_deploy_conf)

\* handle_api_save opening the file for writing before it looks at the body
handle_api_save_early(f, ok, body, fopenOk) ==
  IF ~fopenOk
    THEN [resp |-> send_json(500, s_Internal_Server_Error, msg_save_failed), fs |-> f]
  ELSE IF ~ok \/ Len(body) = 0
    THEN [resp |-> send_error(400, s_Bad_Request),
          fs   |-> [f EXCEPT ![CrissyKey] = File(<<>>)]]
  ELSE [resp |-> send_json(200, s_OK, msg_save_ok),
        fs   |-> [f EXCEPT ![CrissyKey] = File(body)]]

handle_api_save(f, ok, body, fopenOk) ==
  IF ~ok \/ Len(body) = 0
    THEN [resp |-> send_error(400, s_Bad_Request), fs |-> f]
  ELSE IF ~fopenOk
    THEN [resp |-> send_json(500, s_Internal_Server_Error, msg_save_failed), fs |-> f]
  ELSE [resp |-> send_json(200, s_OK, msg_save_ok),
        fs   |-> [f EXCEPT ![CrissyKey] = File(body)]]

\* ExtractRepo with the closing quote copied too
ExtractRepo_quote(body) ==
  LET s     == CStr(body)
      rk    == StrStr(s, s_repo_key)
      colon == IF rk = 0 THEN 0 ELSE StrChr(s, rk + 6, 58)
      q1    == IF colon = 0 THEN 0 ELSE StrChr(s, colon, 34)
      q2    == IF q1 = 0 THEN 0 ELSE StrChr(s, q1 + 1, 34)
  IN  IF q2 # 0 /\ q2 - (q1 + 1) < LineSize THEN SubSeq(s, q1 + 1, q2) ELSE <<>>

\* the scan for "repo", the colon after it and the quoted string after that
ExtractRepo(body) ==
  LET s     == CStr(body)
      rk    == StrStr(s, s_repo_key)
      colon == IF rk = 0 THEN 0 ELSE StrChr(s, rk + 6, 58)
      q1    == IF colon = 0 THEN 0 ELSE StrChr(s, colon, 34)
      q2    == IF q1 = 0 THEN 0 ELSE StrChr(s, q1 + 1, 34)
  IN  IF q2 # 0 /\ q2 - (q1 + 1) < LineSize THEN SubSeq(s, q1 + 1, q2 - 1) ELSE <<>>

\* the two fprintf calls that write deploy.conf
ConfText(repo) == s_conf_comment \o s_repo_eq \o CStr(repo) \o <<10>>

\* handle_api_deploy_config_post refusing a body in which it finds no value
handle_api_deploy_config_post_strict(f, ok, body, fopenOk) ==
  IF ~ok \/ Len(body) = 0 \/ ExtractRepo(body) = <<>>
    THEN [resp |-> send_error(400, s_Bad_Request), fs |-> f]
  ELSE IF ~fopenOk
    THEN [resp |-> send_json(500, s_Internal_Server_Error, msg_conf_failed), fs |-> f]
  ELSE [resp |-> send_json(200, s_OK, msg_conf_ok),
        fs   |-> [f EXCEPT ![ConfKey] = File(ConfText(ExtractRepo(body)))]]

handle_api_deploy_config_post(f, ok, body, fopenOk) ==
  IF ~ok \/ Len(body) = 0
    THEN [resp |-> send_error(400, s_Bad_Request), fs |-> f]
  ELSE IF ~fopenOk
    THEN [resp |-> send_json(500, s_Internal_Server_Error, msg_conf_failed), fs |-> f]
  ELSE [resp |-> send_json(200, s_OK, msg_conf_ok),
        fs   |-> [f EXCEPT ![ConfKey] = File(ConfText(ExtractRepo(body)))]]

\* fgets(line, 1024, f): the chunks a file is read in, each at most 1023 bytes
\* and ending after a newline
RECURSIVE Fgets(_, _, _)
Fgets(data, i, acc) ==
  IF i > Len(data) THEN acc
  ELSE LET nl  == {j \in i..Len(data) : data[j] = 10}
           end == Min(IF nl = {} THEN Len(data) ELSE MinOf(nl), i + LineSize - 2)
       IN  Fgets(data, end + 1, Append(acc, SubSeq(data, i, end)))

\* the trim loop: trailing '\n', '\r' and ' ' cut from the C string of a chunk
RECURSIVE Trim(_)
Trim(line) ==
  IF line # <<>> /\ line[Len(line)] \in {10, 13, 32}
    THEN Trim(SubSeq(line, 1, Len(line) - 1)) ELSE line

\* the read loop without its break: the value of the last "repo=" line
RECURSIVE RepoOf_nobreak(_, _)
RepoOf_nobreak(lines, i) ==
  IF i > Len(lines) THEN <<>>
  ELSE LET line == Trim(CStr(lines[i]))
       IN  IF \E j \in (i + 1)..Len(lines) :
                 LET l == Trim(CStr(lines[j]))
                 IN  Len(l) >= 5 /\ SubSeq(l, 1, 5) = s_repo_eq
             THEN RepoOf_nobreak(lines, i + 1)
           ELSE IF Len(line) >= 5 /\ SubSeq(line, 1, 5) = s_repo_eq
             THEN SubSeq(line, 6, Min(Len(line), 5 + LineSize - 1))
           ELSE <<>>

\* the read loop: the value of the first "repo=" line that is no comment
RECURSIVE RepoOf(_, _)
RepoOf(lines, i) ==
  IF i > Len(lines) THEN <<>>
  ELSE LET line == Trim(CStr(lines[i]))
       IN  IF line = <<>> \/ line[1] = 35 THEN RepoOf(lines, i + 1)
           ELSE IF Len(line) >= 5 /\ SubSeq(line, 1, 5) = s_repo_eq
             THEN SubSeq(line, 6, Min(Len(line), 5 + LineSize - 1))
           ELSE RepoOf(lines, i + 1)

handle_api_deploy_config_get(f) ==
  LET e == f[ConfKey]
      j == Snprintf(JsonSize, s_json_repo_open \o RepoOf(Fgets(e.data, 1, <<>>), 1)
                                \o s_json_repo_close)
  IN  IF e.kind # "file"
        THEN send_json(200, s_OK, s_json_repo_open \o s_json_repo_close)
        ELSE send_response(200, s_OK, "application/json; charset=utf-8",
                           j.text, Len(CStr(j.text)))

\* stat of the binary, then of the source, then system(); rc is the tool's status
handle_api_build(f, rc) ==
  LET tool == IF Stat(f, s_portfolio_build).kind # "none" THEN <<"./portfolio-build .">>
              ELSE IF Stat(f, s_build_go).kind # "none" THEN <<"go run build.go .">>
              ELSE <<>>
  IN  [invoked |-> IF tool = <<>> THEN <<>> ELSE <<[cmd |-> tool[1], ret |-> <<>>]>>,
       resp |-> IF tool = <<>>
                  THEN send_json(500, s_Internal_Server_Error, msg_no_build_tool)
                ELSE IF rc = 0 THEN send_json(200, s_OK, msg_build_ok)
                ELSE send_json(500, s_Internal_Server_Error, msg_build_failed)]

\* handle_api_deploy running the tool from its source when the binary is missing
handle_api_deploy_source(f, rc) ==
  LET found == Stat(f, s_deploy_deploy).kind # "none"
                 \/ Stat(f, s_deploy_deploy_c).kind # "none"
  IN  [invoked |-> IF found THEN <<[cmd |-> "./deploy/deploy", ret |-> <<>>]>> ELSE <<>>,
       resp |-> IF ~found
                  THEN send_json(500, s_Internal_Server_Error, msg_no_deploy_tool)
                ELSE IF rc = 0 THEN send_json(200, s_OK, msg_deploy_ok)
                ELSE send_json(500, s_Internal_Server_Error, msg_deploy_failed)]

handle_api_deploy(f, rc) ==
  LET found == Stat(f, s_deploy_deploy).kind # "none"
  IN  [invoked |-> IF found THEN <<[cmd |-> "./deploy/deploy", ret |-> <<>>]>> ELSE <<>>,
       resp |-> IF ~found
                  THEN (IF Stat(f, s_deploy_deploy_c).kind # "none"
                          THEN send_json(500, s_Internal_Server_Error, msg_deploy_not_compiled)
                          ELSE send_json(500, s_Internal_Server_Error, msg_no_deploy_tool))
                ELSE IF rc = 0 THEN send_json(200, s_OK, msg_deploy_ok)
                ELSE send_json(500, s_Internal_Server_Error, msg_deploy_failed)]

(***************************************************************************)
(* The static file handler.                                                *)
(***************************************************************************)
\* idx of handle_request: filepath, PATH_SEP, "index.html"
IndexPath(filepath) == filepath \o <<47>> \o s_index_html

\* ServeStatic without the return that ends the directory branch
ServeStatic_fallthrough(f, path, fopenOk, mallocOk) ==
  LET filepath == FilePath(path)
      st       == Stat(f, filepath)
      idx      == IndexPath(filepath)
  IN  IF st.kind = "dir" /\ Stat(f, idx).kind = "file"
        THEN [fsArgs |-> <<filepath, idx, idx>>,
              resp   |-> send_file(f, idx, fopenOk, mallocOk)]
        ELSE IF st.kind = "file"
               THEN [fsArgs |-> <<filepath, filepath, filepath>>,
                     resp   |-> send_file(f, filepath, fopenOk, mallocOk)]
               ELSE [fsArgs |-> <<filepath, filepath>>,
                     resp   |-> send_error(404, s_Not_Found)]

\* the stat and fopen calls of handle_request and send_file, in order, and the
\* response they lead to
ServeStatic(f, path, fopenOk, mallocOk) ==
  LET filepath == FilePath(path)
      st       == Stat(f, filepath)
      idx      == IndexPath(filepath)
  IN  IF st.kind = "dir"
        THEN IF Stat(f, idx).kind = "file"
               THEN [fsArgs |-> <<filepath, idx, idx>>,
                     resp   |-> send_file(f, idx, fopenOk, mallocOk)]
               ELSE [fsArgs |-> <<filepath, idx>>,
                     resp   |-> send_error(403, s_Forbidden)]
        ELSE IF st.kind = "file"
               THEN [fsArgs |-> <<filepath, filepath, filepath>>,
                     resp   |-> send_file(f, filepath, fopenOk, mallocOk)]
               ELSE [fsArgs |-> <<filepath, filepath>>,
                     resp   |-> send_error(404, s_Not_Found)]

(***************************************************************************)
(* The router: handle_request from the first recv to the point where it    *)
(* returns or enters the read loop of read_request_body.                   *)
(***************************************************************************)
\* the handler that reads a body finishes here once the read loop has ended
FinishBody(h, f, ok, body, fopenOk) ==
  IF h = "handle_api_save" THEN handle_api_save(f, ok, body, fopenOk)
  ELSE handle_api_deploy_config_post(f, ok, body, fopenOk)

\* RouteOf with the routes matched on the percent-decoded path
RouteOf_decoded(method, raw_path) ==
  IF method = s_POST
    THEN (IF UrlDecode(raw_path) = s_api_save THEN "handle_api_save"
          ELSE IF UrlDecode(raw_path) = s_api_build THEN "handle_api_build"
          ELSE IF UrlDecode(raw_path) = s_api_deploy THEN "handle_api_deploy"
          ELSE IF UrlDecode(raw_path) = s_api_deploy_config
            THEN "handle_api_deploy_config_post"
          ELSE "post_not_found")
  ELSE IF method = s_GET /\ UrlDecode(raw_path) = s_api_deploy_config
    THEN "handle_api_deploy_config_get"
  ELSE IF method # s_GET THEN "method_not_allowed"
  ELSE IF ~path_is_safe(UrlDecode(raw_path)) THEN "forbidden"
  ELSE "static"

\* RouteOf with the path sanitized before the method is looked at
RouteOf_sanitize_first(method, raw_path) ==
  IF ~path_is_safe(UrlDecode(raw_path)) THEN "forbidden"
  ELSE IF method = s_POST
    THEN (IF raw_path = s_api_save THEN "handle_api_save"
          ELSE IF raw_path = s_api_build THEN "handle_api_build"
          ELSE IF raw_path = s_api_deploy THEN "handle_api_deploy"
          ELSE IF raw_path = s_api_deploy_config THEN "handle_api_deploy_config_post"
          ELSE "post_not_found")
  ELSE IF method = s_GET /\ raw_path = s_api_deploy_config
    THEN "handle_api_deploy_config_get"
  ELSE IF method # s_GET THEN "method_not_allowed"
  ELSE "static"

\* the POST and GET route tests, in the order of the code; raw_path is the
\* target with its query cut off, not yet percent-decoded
RouteOf(method, raw_path) ==
  IF method = s_POST
    THEN (IF raw_path = s_api_save THEN "handle_api_save"
          ELSE IF raw_path = s_api_build THEN "handle_api_build"
          ELSE IF raw_path = s_api_deploy THEN "handle_api_deploy"
          ELSE IF raw_path = s_api_deploy_config THEN "handle_api_deploy_config_post"
          ELSE "post_not_found")
  ELSE IF method = s_GET /\ raw_path = s_api_deploy_config
    THEN "handle_api_deploy_config_get"
  ELSE IF method # s_GET THEN "method_not_allowed"
  ELSE IF ~path_is_safe(UrlDecode(raw_path)) THEN "forbidden"
  ELSE "static"

BodyHandlers == {"handle_api_save", "handle_api_deploy_config_post"}

\* the handlers that run an external tool with system()
ToolHandlers == {"handle_api_build", "handle_api_deploy"}

\* such a handler, from its stat calls to its response; rc is what system()
\* returns when it is called
RunTool(h, f, rc) ==
  IF h = "handle_api_build" THEN handle_api_build(f, rc) ELSE handle_api_deploy(f, rc)

\* what handle_request does with the n bytes of the first read
Dispatch(f, buf, n, mallocOk, fopenOk) ==
  LET line == ScanRequestLine(buf)
      raw  == StripQuery(line.raw_path)
      h    == RouteOf(line.method, raw)
      rb   == ReadBodyStart(buf, n, mallocOk)
      base == [method |-> line.method, raw_path |-> raw, handler |-> h,
               next |-> "close", sent |-> <<>>, fs |-> f, ok |-> FALSE,
               body |-> <<>>, remaining |-> 0, fsArgs |-> <<>>, invoked |-> <<>>,
               faults |-> {}]
  IN  CASE h \in BodyHandlers ->
             IF rb.ok /\ rb.remaining > 0
               THEN [base EXCEPT !.next = "body", !.ok = TRUE, !.body = rb.body,
                                 !.remaining = rb.remaining]
               ELSE LET fin == FinishBody(h, f, rb.ok, rb.body, fopenOk)
                    IN  [base EXCEPT !.sent = <<fin.resp>>, !.fs = fin.fs, !.ok = rb.ok,
                                     !.body = rb.body,
                                     !.faults =
                                        (IF ~rb.ok /\ ReadBodyStart(buf, n, TRUE).ok
                                           THEN {"malloc"} ELSE {})
                                        \cup (IF rb.ok /\ Len(rb.body) > 0 /\ ~fopenOk
                                                THEN {"fopen"} ELSE {})]
        [] h \in ToolHandlers ->
             LET r == RunTool(h, f, 0)
             IN  IF r.invoked # <<>>
                   THEN [base EXCEPT !.next = "system", !.invoked = r.invoked]
                   ELSE [base EXCEPT !.sent = <<r.resp>>]
        [] h = "handle_api_deploy_config_get" ->
             [base EXCEPT !.sent = <<handle_api_deploy_config_get(f)>>]
        [] h = "post_not_found" ->
             [base EXCEPT !.sent = <<send_error(404, s_Not_Found)>>]
        [] h = "method_not_allowed" ->
             [base EXCEPT !.sent = <<send_error(405, s_Method_Not_Allowed)>>]
        [] h = "forbidden" ->
             [base EXCEPT !.sent = <<send_error(403, s_Forbidden)>>]
        [] OTHER ->
             LET r == ServeStatic(f, UrlDecode(raw), fopenOk, mallocOk)
             IN  [base EXCEPT !.sent = <<r.resp>>, !.fsArgs = r.fsArgs,
                              !.faults =
                                 IF r.resp.status = 500 THEN {"malloc"}
                                 ELSE IF r.resp.status = 404 /\ Len(r.fsArgs) = 3
                                   THEN {"fopen"}
                                 ELSE {}]

(***************************************************************************)
(* Requests the clients send.                                              *)
(***************************************************************************)
\* a request: the request line, the header lines (each ending in CRLF), the
\* blank line and the body
Request(method, target, headers, body) ==
  method \o <<32>> \o target \o s_HTTP11 \o s_CRLF \o headers \o s_CRLF \o body

\* the header line "Content-Length: n"
ContentLength(n) == s_Content_Length \o <<32>> \o Dec(n) \o s_CRLF

\* the header line "content-length: n"
LowerContentLength(n) == s_content_length \o <<32>> \o Dec(n) \o s_CRLF

\* the header lines "CONTENT-LENGTH: n" and "Content-length: n"
UpperContentLength(n) ==
  <<67, 79, 78, 84, 69, 78, 84, 45, 76, 69, 78, 71, 84, 72, 58>> \o <<32>> \o Dec(n) \o s_CRLF

MixedContentLength(n) ==
  <<67, 111, 110, 116, 101, 110, 116, 45, 108, 101, 110, 103, 116, 104, 58>> \o <<32>> \o Dec(n) \o s_CRLF

\* the header line "X-Content-Length: n" of some other protocol
XContentLength(n) == <<88, 45>> \o ContentLength(n)

\* the header line "Content-Length: -1"
NegContentLength == s_Content_Length \o <<32, 45, 49>> \o s_CRLF

\* length of the request line and headers, through the blank line
HeadLen(stream) == StrStr(stream, s_CRLFCRLF) + 3

\* sequences of at most n elements of S
RECURSIVE SeqsUpTo(_, _)
SeqsUpTo(S, n) ==
  IF n = 0 THEN {<<>>}
  ELSE LET shorter == SeqsUpTo(S, n - 1)
       IN  shorter \cup {Append(s, x) : s \in shorter, x \in S}

RECURSIVE Flatten(_)
Flatten(ss) == IF ss = <<>> THEN <<>> ELSE Head(ss) \o Flatten(Tail(ss))

\* pieces of request targets: "/", ".", "a", "%2e", "%", "%00"
PathTokens == {<<47>>, <<46>>, <<97>>, <<37, 50, 101>>, <<37>>, <<37, 48, 48>>}

PathTargets == {Flatten(ts) : ts \in SeqsUpTo(PathTokens, MaxTokens)} \ {<<>>}

\* "/api/s%61ve", "/api/deploy%2Dconfig", "/api/save?x", "/api/deploy-config?x",
\* "/%252e%252e/a", "/a%zz"
EscapedTargets ==
  {<<47, 97, 112, 105, 47, 115, 37, 54, 49, 118, 101>>,
   <<47, 97, 112, 105, 47, 100, 101, 112, 108, 111, 121, 37, 50, 68,
     99, 111, 110, 102, 105, 103>>,
   s_api_save \o <<63, 120>>,
   s_api_deploy_config \o <<63, 120>>,
   <<47, 37, 50, 53, 50, 101, 37, 50, 53, 50, 101, 47, 97>>,
   <<47, 97, 37, 122, 122>>}

\* targets with a query, or with an encoded question mark:
\* /a?x  /a?  /a??  /a?%3F  /a?/..  /?x  /a/?a=b
\* /..?x  /a%3Fb  /a%3f  /api/build?x  /api/save%3Fx  ?x
QueryTargets ==
  {<<47, 97, 63, 120>>,
   <<47, 97, 63>>,
   <<47, 97, 63, 63>>,
   <<47, 97, 63, 37, 51, 70>>,
   <<47, 97, 63, 47, 46, 46>>,
   <<47, 63, 120>>,
   <<47, 97, 47, 63, 97, 61, 98>>,
   <<47, 46, 46, 63, 120>>,
   <<47, 97, 37, 51, 70, 98>>,
   <<47, 97, 37, 51, 102>>,
   <<47, 97, 112, 105, 47, 98, 117, 105, 108, 100, 63, 120>>,
   <<47, 97, 112, 105, 47, 115, 97, 118, 101, 37, 51, 70, 120>>,
   <<63, 120>>}

\* targets with a colon: /c:  /c:/a  c:  /1:  /\c:  /:c
\* /:  /::  /ab:  /c%3A  //c:  /c
DriveTargets ==
  {<<47, 99, 58>>,
   <<47, 99, 58, 47, 97>>,
   <<99, 58>>,
   <<47, 49, 58>>,
   <<47, 92, 99, 58>>,
   <<47, 58, 99>>,
   <<47, 58>>,
   <<47, 58, 58>>,
   <<47, 97, 98, 58>>,
   <<47, 99, 37, 51, 65>>,
   <<47, 47, 99, 58>>,
   <<47, 99>>}

RouteTargets == {s_api_save, s_api_build, s_api_deploy, s_api_deploy_config}

Methods == {s_GET, s_POST, s_DELETE}

\* request bodies: bytes 'a' and NUL
Bodies == SeqsUpTo({97, 0}, MaxBody)

\* bodies of /api/deploy-config: {"repo":"V"}
RepoBody(v) == s_json_repo_open \o v \o s_json_repo_close

\* repo values: "", "u", "u ", "u\r", "u\nv", " u", "u\rv", "u\0"
RepoValues ==
  {<<>>, <<117>>, <<117, 32>>, <<117, 13>>, <<117, 10, 118>>, <<32, 117>>, <<117, 13, 118>>,
   <<117, 0>>}

\* the requests of the path family: every method on every short target, with
\* no header and no body
PathRequests ==
  {Request(m, t, <<>>, <<>>) :
     m \in Methods,
     t \in PathTargets \cup EscapedTargets \cup QueryTargets \cup DriveTargets}

\* POST /api/save with a body and a Content-Length header of its length, in
\* four spellings, of another value, or with no such header
SaveRequests ==
  {Request(s_POST, s_api_save, ContentLength(Len(b)), b) : b \in Bodies}
  \cup {Request(s_POST, s_api_save, ContentLength(1), b) : b \in Bodies}
  \cup {Request(s_POST, s_api_save, LowerContentLength(Len(b)), b) : b \in {<<97>>, <<0, 97>>}}
  \cup {Request(s_POST, s_api_save, <<>>, b) : b \in {<<>>, <<97>>}}
  \cup {Request(s_POST, s_api_save, ContentLength(n), <<97>>) :
          n \in {MaxContentLength, MaxContentLength + 1, 20000000}}
  \cup {Request(s_POST, s_api_save, NegContentLength, <<97>>)}
  \cup {Request(s_POST, s_api_save, UpperContentLength(1), <<97>>),
        Request(s_POST, s_api_save, MixedContentLength(1), <<97>>)}

\* requests in which the text "Content-Length:" occurs before the header of
\* that name, or without it, the body being "aa", and one with no such
\* header and the body "Content-Length: 1"
DecoyRequests ==
  {Request(s_POST, s_api_save, XContentLength(1) \o ContentLength(2), <<97, 97>>),
   Request(s_POST, s_api_save, XContentLength(1), <<97, 97>>),
   Request(s_POST, s_api_save, XContentLength(1) \o ContentLength(20000000), <<97, 97>>),
   Request(s_POST, s_api_save, <<>>, s_Content_Length \o <<32, 49>>)}

\* the requests of the save family
SaveFamily ==
  {r : r \in SaveRequests \cup DecoyRequests \cup {Request(s_POST, s_api_build, <<>>, <<>>)}}

ConfigRequests ==
  {Request(s_POST, s_api_deploy_config, ContentLength(Len(RepoBody(v))), RepoBody(v)) :
     v \in RepoValues}
  \cup {Request(s_POST, s_api_deploy_config, <<>>, RepoBody(<<117>>)),
        Request(s_POST, s_api_deploy_config, ContentLength(20000000), RepoBody(<<117>>)),
        Request(s_GET, s_api_deploy_config, <<>>, <<>>)}

\* a request for every other route and every refusal
OtherRequests ==
  {Request(s_POST, s_api_save, ContentLength(1), <<97>>),
   Request(s_POST, s_api_save, <<>>, <<>>),
   Request(s_POST, s_api_build, <<>>, <<>>),
   Request(s_POST, s_api_deploy, <<>>, <<>>),
   Request(s_POST, <<47, 97>>, <<>>, <<>>),
   Request(s_GET, <<47>>, <<>>, <<>>),
   Request(s_GET, <<47, 97>>, <<>>, <<>>),
   Request(s_GET, <<47, 46, 46>>, <<>>, <<>>),
   Request(s_DELETE, <<47>>, <<>>, <<>>)}

\* the requests of the route family: the deploy-config requests and one
\* request for every other route
RouteFamily == {r : r \in ConfigRequests \cup OtherRequests}

\* the requests of the path family: every method on every short target, and
\* a request with a body
PathFamily ==
  {r : r \in PathRequests \cup {Request(s_POST, s_api_save, ContentLength(1), <<97>>),
                                 Request(s_POST, s_api_build, <<>>, <<>>)}}

\* sizes of the first read: nothing (the peer closed or recv failed), the head
\* short of its last byte, the head and at most MaxFirst bytes of the body,
\* or everything
FirstReads(stream) ==
  {0, HeadLen(stream) - 1, Len(stream)}
    \cup (HeadLen(stream)..Min(HeadLen(stream) + MaxFirst, Len(stream)))

\* sizes of a later read when avail bytes have arrived and want are asked for:
\* nothing (the peer closed or recv failed), at most MaxChunk bytes, or all
Chunks(want, avail) ==
  {0, Min(want, avail)} \cup (1..Min(MaxChunk, Min(want, avail)))

\* exit status of an external tool as system() returns it
ToolStatus == {0, 256}

(***************************************************************************)
(* File systems the server starts in.                                      *)
(***************************************************************************)
\* "a"
s_a == <<97>>

\* "deploy"
s_deploy == <<100, 101, 112, 108, 111, 121>>

\* "deploy.c"
s_deploy_c == <<100, 101, 112, 108, 111, 121, 46, 99>>

FsKeys ==
  {Rel(s_manage_html), Rel(s_a), [abs |-> FALSE, comps |-> <<s_a, s_index_html>>],
   [abs |-> TRUE, comps |-> <<s_a>>], CrissyKey, ConfKey,
   Rel(s_portfolio_build), Rel(s_build_go), Rel(s_deploy),
   [abs |-> FALSE, comps |-> <<s_deploy, s_deploy>>],
   [abs |-> FALSE, comps |-> <<s_deploy, s_deploy_c>>]}

EmptyFs == [k \in FsKeys |-> NoEnt]

\* manage.html, a file "a", a file "/a" outside the working directory, the
\* build binary and the deploy binary
FsFiles ==
  [EmptyFs EXCEPT ![Rel(s_manage_html)] = File(<<109>>),
                  ![Rel(s_a)] = File(<<120, 0, 121>>),
                  ![[abs |-> TRUE, comps |-> <<s_a>>]] = File(<<115>>),
                  ![Rel(s_portfolio_build)] = File(<<>>),
                  ![Rel(s_deploy)] = Dir,
                  ![[abs |-> FALSE, comps |-> <<s_deploy, s_deploy>>]] = File(<<>>)]

\* no manage.html, a directory "a" with an index.html, a deploy.conf with a
\* domain line, build.go and deploy.c but no binaries
FsDirs ==
  [EmptyFs EXCEPT ![Rel(s_a)] = Dir,
                  ![[abs |-> FALSE, comps |-> <<s_a, s_index_html>>]] = File(<<105>>),
                  ![ConfKey] = File(<<100, 111, 109, 97, 105, 110, 61, 100, 10>>
                                      \o s_repo_eq \o <<114, 10>>),
                  ![Rel(s_build_go)] = File(<<>>),
                  ![Rel(s_deploy)] = Dir,
                  ![[abs |-> FALSE, comps |-> <<s_deploy, s_deploy_c>>]] = File(<<>>)]

InitialFs == {FsFiles, FsDirs, EmptyFs}

(***************************************************************************)
(* Command lines the server is started with.                               *)
(***************************************************************************)
\* port arguments: "0", "1", "80", "65535", "65536", "-1", "abc", "80abc",
\* "", " 80", "+80", "4294967376"
PortArgs ==
  {<<48>>, <<49>>, <<56, 48>>, <<54, 53, 53, 51, 53>>, <<54, 53, 53, 51, 54>>,
   <<45, 49>>, <<97, 98, 99>>, <<56, 48, 97, 98, 99>>, <<>>, <<32, 56, 48>>,
   <<43, 56, 48>>, <<52, 50, 57, 52, 57, 54, 55, 51, 55, 54>>}

\* no argument, or one port argument
CommandLines == {c : c \in {<<>>} \cup {<<a>> : a \in PortArgs}}

\* requests whose request line lacks the method or the target, each followed
\* by a blank line: "GET", "GET ", "GET  HTTP/1.1", "POST", "POST  HTTP/1.1",
\* "" and " / HTTP/1.1"
MalformedRequests ==
  {<<71, 69, 84, 13, 10, 13, 10>>,
   <<71, 69, 84, 32, 13, 10, 13, 10>>,
   <<71, 69, 84, 32, 32, 72, 84, 84, 80, 47, 49, 46, 49, 13, 10, 13, 10>>,
   <<80, 79, 83, 84, 13, 10, 13, 10>>,
   <<80, 79, 83, 84, 32, 32, 72, 84, 84, 80, 47, 49, 46, 49, 13, 10, 13, 10>>,
   <<13, 10, 13, 10>>,
   <<32, 47, 32, 72, 84, 84, 80, 47, 49, 46, 49, 13, 10, 13, 10>>}

\* the requests sent to a server followed from its start: a page, a build,
\* a save whose body comes in a second read, and the malformed ones
MainFamily ==
  {r : r \in {Request(s_GET, <<47>>, <<>>, <<>>),
              Request(s_POST, s_api_build, <<>>, <<>>),
              Request(s_POST, s_api_save, ContentLength(1), <<97>>)}
          \cup MalformedRequests}

(***************************************************************************)
(* Files of every type, and the requests for them.                         *)
(***************************************************************************)
\* "x" followed by each extension of the MIME table, and "x", "x.bin",
\* "x.HTML", "x.html.bak", "x.min.js", ".html" and "x."
MimeNames ==
  {<<120>> \o mime_table[i][1] : i \in 1..Len(mime_table)}
    \cup {<<120>>, <<120, 46, 98, 105, 110>>, <<120, 46, 72, 84, 77, 76>>,
          <<120, 46, 104, 116, 109, 108, 46, 98, 97, 107>>,
          <<120, 46, 109, 105, 110, 46, 106, 115>>,
          <<46, 104, 116, 109, 108>>, <<120, 46>>}

\* "d.css", a directory
s_d_css == <<100, 46, 99, 115, 115>>

\* the files above, each holding its own name, a file "x" in "d.css" and
\* the source of the build tool
FsMime ==
  [k \in FsKeys \cup {Rel(n) : n \in MimeNames}
              \cup {Rel(s_d_css), [abs |-> FALSE, comps |-> <<s_d_css, <<120>>>>]} |->
     IF k = Rel(s_d_css) THEN Dir
     ELSE IF k = [abs |-> FALSE, comps |-> <<s_d_css, <<120>>>>] THEN File(<<120>>)
     ELSE IF k = Rel(s_build_go) THEN File(<<>>)
     ELSE IF k \in FsKeys THEN NoEnt
     ELSE File(k.comps[1])]

\* a GET of each of these files
MimeFamily ==
  {r : r \in {Request(s_GET, <<47>> \o n, <<>>, <<>>) : n \in MimeNames}
          \cup {Request(s_GET, <<47>> \o s_d_css \o <<47, 120>>, <<>>, <<>>),
                Request(s_POST, s_api_save, ContentLength(1), <<97>>),
                Request(s_POST, s_api_build, <<>>, <<>>)}}

(***************************************************************************)
(* Deploy configuration files and bodies of the configuration family.      *)
(***************************************************************************)
\* a comment that names repo, a blank line, a line of spaces, then two repo lines,
\* the first with a space and a CR LF at its end
ConfData1 ==
  <<35, 114, 101, 112, 111, 61, 120, 10, 10, 32, 10, 114, 101, 112, 111, 61, 114, 32, 13, 10, 114, 101, 112, 111, 61, 115, 10>>

\* an indented repo line, a domain line, a repo line without value and one with,
\* no newline at the end
ConfData2 ==
  <<32, 114, 101, 112, 111, 61, 120, 10, 100, 111, 109, 97, 105, 110, 61, 100, 10, 114, 101, 112, 111, 61, 10, 114, 101, 112, 111, 61, 115>>

\* no repo line
ConfData3 ==
  <<100, 111, 109, 97, 105, 110, 61, 100, 10, 35, 32, 99, 10>>

\* one line, its value with '=' and a space inside
ConfData4 ==
  <<114, 101, 112, 111, 61, 97, 61, 98, 32, 99>>

ConfDatas == {ConfData1, ConfData2, ConfData3, ConfData4}

\* a directory with build.go and one of these files as deploy.conf, or none
FsConf ==
  {f : f \in {[EmptyFs EXCEPT ![Rel(s_build_go)] = File(<<>>), ![ConfKey] = File(d)] :
                d \in ConfDatas}
          \cup {[EmptyFs EXCEPT ![Rel(s_build_go)] = File(<<>>)]}}

\* bodies in which the scan of handle_api_deploy_config_post finds no value:
\* a  {}  {"repo"}  {"repo":}  {"repo":"u  {"rep":"u"}  {"repo" "u"}  {"repo":7}
KeylessBodies ==
  {<<97>>,
   <<123, 125>>,
   <<123, 34, 114, 101, 112, 111, 34, 125>>,
   <<123, 34, 114, 101, 112, 111, 34, 58, 125>>,
   <<123, 34, 114, 101, 112, 111, 34, 58, 34, 117>>,
   <<123, 34, 114, 101, 112, 34, 58, 34, 117, 34, 125>>,
   <<123, 34, 114, 101, 112, 111, 34, 32, 34, 117, 34, 125>>,
   <<123, 34, 114, 101, 112, 111, 34, 58, 55, 125>>}

\* the configuration requests, a POST of each keyless body, and a build
ConfFamily ==
  {r : r \in ConfigRequests
          \cup {Request(s_POST, s_api_deploy_config, ContentLength(Len(b)), b) :
                  b \in KeylessBodies}
          \cup {Request(s_POST, s_api_build, <<>>, <<>>)}}

(***************************************************************************)
(* The server: main's accept loop, handle_request and the signal handler.  *)
(***************************************************************************)
VARIABLES
  running,      \* the stop flag of the signal handler
  server_sock,  \* the listening socket handle: "open" or "invalid"
  pc,           \* where main is
  fs,           \* the file system
  clients,      \* number of client sockets accepted and not yet closed
  stream,       \* the bytes the client of the current connection sends
  inbuf,        \* those of them not yet received
  method,       \* method[] of handle_request
  raw_path,     \* raw_path[] of handle_request, the query cut off
  handler,      \* the branch of handle_request taken
  bodyOk,       \* read_request_body has a buffer to return
  body,         \* that buffer, up to offset
  remaining,    \* remaining of read_request_body
  sent,         \* the responses sent on the current connection
  recvs,        \* number of recv calls on the current connection
  fsArgs,       \* paths given to stat and fopen by the static file handler
  invoked,      \* commands given to system() for the current request
  faults,       \* calls that failed during the current request
  lastConf,     \* body of the POST that last wrote deploy.conf, if one did
  argv,         \* the command line arguments after the program name
  port,         \* port of main
  exit_status,  \* what main returned, -1 while it has not
  sock_calls,   \* the calls made on the listening socket, in order
  interrupted   \* an interrupt signal was sent to the process

vars == <<running, server_sock, pc, fs, clients, stream, inbuf, method,
          raw_path, handler, bodyOk, body, remaining, sent, recvs, fsArgs,
          invoked, faults, lastConf, argv, port, exit_status, sock_calls,
          interrupted>>

\* main's arguments, its local port and its return value
mainVars == <<argv, port, exit_status>>

connVars == <<stream, inbuf, method, raw_path, handler, bodyOk, body,
              remaining, sent, recvs, fsArgs, invoked, faults>>

\* the state on entry to the accept loop of a server started with no
\* argument, the listener bound and listening
Init ==
  /\ running = 1
  /\ server_sock = "open"
  /\ pc = "loop"
  /\ argv = <<>>
  /\ port = DefaultPort
  /\ exit_status = -1
  /\ sock_calls = <<"socket", "bind", "listen">>
  /\ interrupted = FALSE
  /\ fs \in InitialFs
  /\ clients = 0
  /\ stream = <<>>
  /\ inbuf = <<>>
  /\ method = <<>>
  /\ raw_path = <<>>
  /\ handler = "none"
  /\ bodyOk = FALSE
  /\ body = <<>>
  /\ remaining = 0
  /\ sent = <<>>
  /\ recvs = 0
  /\ fsArgs = <<>>
  /\ invoked = <<>>
  /\ faults = {}
  /\ lastConf = <<>>

\* CLOSESOCKET(h) on the listening socket as sock_calls records it: "close"
\* when h is the handle socket() returned, "close_invalid" when h is
\* INVALID_SOCK
CloseCall(h) == IF h = "invalid" THEN "close_invalid" ELSE "close"

\* handle_signal: the flag is cleared, and the listening socket closed if
\* server_sock holds one
handle_signal ==
  /\ running' = 0
  /\ server_sock' = "invalid"
  /\ sock_calls' = IF server_sock # "invalid"
                     THEN Append(sock_calls, CloseCall(server_sock))
                     ELSE sock_calls

\* an interrupt signal is sent to the process once main has installed the
\* handler: the handler runs, unless main is inside system(), which ignores
\* the signal until the command has ended
Interrupt ==
  /\ pc \notin {"start", "done"}
  /\ interrupted' = TRUE
  /\ IF pc = "system"
       THEN UNCHANGED <<running, server_sock, sock_calls>>
       ELSE handle_signal
  /\ UNCHANGED <<pc, fs, clients, connVars, lastConf, mainVars>>

\* main up to the installation of the signal handler: the port argument
ParsePort ==
  /\ pc = "start"
  /\ \E p \in (IF Len(argv) > 0 THEN atoi(argv[1]) ELSE {port}) :
       /\ port' = p
       /\ IF Len(argv) > 0 /\ (p <= 0 \/ p > MaxPort)
            THEN pc' = "done" /\ exit_status' = 1
            ELSE pc' = "socket" /\ UNCHANGED exit_status
  /\ UNCHANGED <<running, server_sock, fs, clients, connVars, lastConf, argv,
                 sock_calls, interrupted>>

\* socket, bind and listen, one call a step, each of which may fail, and
\* open_browser.  bind fails on a handle the signal handler has closed.  After
\* a failed bind or listen main closes server_sock without a test and without
\* marking it invalid ("failed"), and returns 1 ("return1")
OpenListener ==
  /\ pc \in {"socket", "bind", "listen", "failed", "return1"}
  /\ \E ok \in (IF pc \in {"bind", "listen"} /\ server_sock = "invalid"
                  THEN {FALSE} ELSE BOOLEAN) :
       /\ server_sock' = IF pc = "socket"
                           THEN (IF ok THEN "open" ELSE "invalid")
                           ELSE server_sock
       /\ sock_calls' =
            CASE pc = "failed"  -> Append(sock_calls, CloseCall(server_sock))
              [] pc = "return1" -> sock_calls
              [] OTHER          -> Append(sock_calls, pc)
       /\ pc' = CASE pc = "socket"  -> IF ok THEN "bind" ELSE "return1"
                  [] pc = "bind"    -> IF ok THEN "listen" ELSE "failed"
                  [] pc = "listen"  -> IF ok THEN "loop" ELSE "failed"
                  [] pc = "failed"  -> "return1"
                  [] OTHER          -> "done"
       /\ exit_status' = IF pc = "return1" THEN 1 ELSE exit_status
  /\ UNCHANGED <<running, fs, clients, connVars, lastConf, argv, port, interrupted>>

\* while (running)
LoopTest ==
  /\ pc = "loop"
  /\ pc' = IF running = 1 THEN "accept" ELSE "exit"
  /\ UNCHANGED <<running, server_sock, fs, clients, connVars, lastConf, mainVars,
                 sock_calls, interrupted>>

\* accept() returns a client that will send one of the requests
Accept(requests) ==
  /\ pc = "accept"
  /\ server_sock = "open"
  /\ \E r \in requests :
       /\ stream' = r
       /\ inbuf' = r
  /\ clients' = clients + 1
  /\ pc' = "handle"
  /\ UNCHANGED <<running, server_sock, fs, method, raw_path, handler, bodyOk,
                 body, remaining, sent, recvs, fsArgs, invoked, faults, lastConf,
                 mainVars, sock_calls, interrupted>>

\* accept() returns INVALID_SOCK: the listener was closed, or the call failed
AcceptFails ==
  /\ pc = "accept"
  /\ pc' = IF running = 0 THEN "exit" ELSE "loop"
  /\ UNCHANGED <<running, server_sock, fs, clients, connVars, lastConf, mainVars,
                 sock_calls, interrupted>>

\* the body of a 200-answered POST /api/deploy-config whose reads all succeeded
\* is kept for reference; after any other write of deploy.conf none is
ConfWritten(h, rs, b, fl, old) ==
  IF h = "handle_api_deploy_config_post" /\ rs # <<>> /\ rs[1].status = 200
    THEN (IF "recv" \in fl THEN <<>> ELSE <<b>>)
    ELSE old

\* HandleRequest answering 400 when its recv returns nothing
HandleRequest_answer ==
  /\ pc = "handle"
  /\ \E n \in FirstReads(stream), mallocOk \in BOOLEAN, fopenOk \in BOOLEAN :
       \E d \in {Dispatch(fs, SubSeq(stream, 1, Min(n, BufSize - 1)),
                           Min(n, BufSize - 1), mallocOk, fopenOk)} :
           /\ recvs' = 1
           /\ inbuf' = SubSeq(stream, Min(n, BufSize - 1) + 1, Len(stream))
           /\ IF n = 0
                THEN /\ pc' = "close"
                     /\ faults' = {"recv"}
                     /\ sent' = <<send_error(400, s_Bad_Request)>>
                     /\ UNCHANGED <<fs, method, raw_path, handler, bodyOk, body,
                                    remaining, fsArgs, invoked, lastConf>>
                ELSE /\ pc' = d.next
                     /\ fs' = d.fs
                     /\ method' = d.method
                     /\ raw_path' = d.raw_path
                     /\ handler' = d.handler
                     /\ bodyOk' = d.ok
                     /\ body' = d.body
                     /\ remaining' = d.remaining
                     /\ sent' = d.sent
                     /\ fsArgs' = d.fsArgs
                     /\ invoked' = d.invoked
                     /\ faults' = d.faults
                     /\ lastConf' = ConfWritten(d.handler, d.sent, d.body, d.faults, lastConf)
  /\ UNCHANGED <<running, server_sock, clients, stream, mainVars, sock_calls,
                 interrupted>>

\* handle_request, from its recv to its return or to the read loop
HandleRequest ==
  /\ pc = "handle"
  /\ \E n \in FirstReads(stream), mallocOk \in BOOLEAN, fopenOk \in BOOLEAN :
       \E d \in {Dispatch(fs, SubSeq(stream, 1, Min(n, BufSize - 1)),
                           Min(n, BufSize - 1), mallocOk, fopenOk)} :
           /\ recvs' = 1
           /\ inbuf' = SubSeq(stream, Min(n, BufSize - 1) + 1, Len(stream))
           /\ IF n = 0
                THEN /\ pc' = "close"
                     /\ faults' = {"recv"}
                     /\ UNCHANGED <<fs, method, raw_path, handler, bodyOk, body,
                                    remaining, sent, fsArgs, invoked, lastConf>>
                ELSE /\ pc' = d.next
                     /\ fs' = d.fs
                     /\ method' = d.method
                     /\ raw_path' = d.raw_path
                     /\ handler' = d.handler
                     /\ bodyOk' = d.ok
                     /\ body' = d.body
                     /\ remaining' = d.remaining
                     /\ sent' = d.sent
                     /\ fsArgs' = d.fsArgs
                     /\ invoked' = d.invoked
                     /\ faults' = d.faults
                     /\ lastConf' = ConfWritten(d.handler, d.sent, d.body, d.faults, lastConf)
  /\ UNCHANGED <<running, server_sock, clients, stream, mainVars, sock_calls,
                 interrupted>>

\* system() returns in handle_api_build or handle_api_deploy, and the handler
\* answers
SystemReturns ==
  /\ pc = "system"
  /\ \E rc \in ToolStatus :
       /\ invoked' = <<[invoked[1] EXCEPT !.ret = <<rc>>]>>
       /\ sent' = <<RunTool(handler, fs, rc).resp>>
  /\ pc' = "close"
  /\ UNCHANGED <<running, server_sock, fs, clients, stream, inbuf, method, raw_path,
                 handler, bodyOk, body, remaining, recvs, fsArgs, faults, lastConf,
                 mainVars, sock_calls, interrupted>>

\* RecvBody with a read loop that gives up the body when a read returns
\* nothing
RecvBody_strict ==
  /\ pc = "body"
  /\ remaining > 0
  /\ recvs' = recvs + 1
  /\ \E chunk \in Chunks(remaining, Len(inbuf)), fopenOk \in BOOLEAN :
       \E got \in {body \o SubSeq(inbuf, 1, chunk)} :
       \E fin \in {FinishBody(handler, fs, bodyOk /\ chunk > 0, got, fopenOk)} :
           /\ inbuf' = SubSeq(inbuf, chunk + 1, Len(inbuf))
           /\ body' = got
           /\ remaining' = remaining - chunk
           /\ IF chunk > 0 /\ remaining - chunk > 0
                THEN /\ UNCHANGED <<pc, fs, sent, faults, lastConf>>
                ELSE /\ pc' = "close"
                     /\ fs' = fin.fs
                     /\ sent' = Append(sent, fin.resp)
                     /\ faults' = faults \cup (IF chunk = 0 THEN {"recv"} ELSE {})
                                    \cup (IF Len(got) > 0 /\ ~fopenOk THEN {"fopen"} ELSE {})
                     /\ lastConf' = ConfWritten(handler, <<fin.resp>>, got,
                                             IF chunk = 0 THEN {"recv"} ELSE {}, lastConf)
  /\ UNCHANGED <<running, server_sock, clients, stream, method, raw_path,
                 handler, bodyOk, fsArgs, invoked, mainVars, sock_calls, interrupted>>

\* one recv of the read loop of read_request_body; when the loop ends the
\* handler runs to its return
RecvBody ==
  /\ pc = "body"
  /\ remaining > 0
  /\ recvs' = recvs + 1
  /\ \E chunk \in Chunks(remaining, Len(inbuf)), fopenOk \in BOOLEAN :
       \E got \in {body \o SubSeq(inbuf, 1, chunk)} :
       \E fin \in {FinishBody(handler, fs, bodyOk, got, fopenOk)} :
           /\ inbuf' = SubSeq(inbuf, chunk + 1, Len(inbuf))
           /\ body' = got
           /\ remaining' = remaining - chunk
           /\ IF chunk > 0 /\ remaining - chunk > 0
                THEN /\ UNCHANGED <<pc, fs, sent, faults, lastConf>>
                ELSE /\ pc' = "close"
                     /\ fs' = fin.fs
                     /\ sent' = Append(sent, fin.resp)
                     /\ faults' = faults \cup (IF chunk = 0 THEN {"recv"} ELSE {})
                                    \cup (IF Len(got) > 0 /\ ~fopenOk THEN {"fopen"} ELSE {})
                     /\ lastConf' = ConfWritten(handler, <<fin.resp>>, got,
                                             IF chunk = 0 THEN {"recv"} ELSE {}, lastConf)
  /\ UNCHANGED <<running, server_sock, clients, stream, method, raw_path,
                 handler, bodyOk, fsArgs, invoked, mainVars, sock_calls, interrupted>>

\* CloseClient without the CLOSESOCKET call
CloseClient_leak ==
  /\ pc = "close"
  /\ pc' = "loop"
  /\ stream' = <<>>
  /\ inbuf' = <<>>
  /\ method' = <<>>
  /\ raw_path' = <<>>
  /\ handler' = "none"
  /\ bodyOk' = FALSE
  /\ body' = <<>>
  /\ remaining' = 0
  /\ sent' = <<>>
  /\ recvs' = 0
  /\ fsArgs' = <<>>
  /\ invoked' = <<>>
  /\ faults' = {}
  /\ UNCHANGED <<running, server_sock, fs, clients, lastConf, mainVars, sock_calls,
                 interrupted>>

\* CLOSESOCKET(client); the locals of handle_request are gone
CloseClient ==
  /\ pc = "close"
  /\ clients' = clients - 1
  /\ pc' = "loop"
  /\ stream' = <<>>
  /\ inbuf' = <<>>
  /\ method' = <<>>
  /\ raw_path' = <<>>
  /\ handler' = "none"
  /\ bodyOk' = FALSE
  /\ body' = <<>>
  /\ remaining' = 0
  /\ sent' = <<>>
  /\ recvs' = 0
  /\ fsArgs' = <<>>
  /\ invoked' = <<>>
  /\ faults' = {}
  /\ UNCHANGED <<running, server_sock, fs, lastConf, mainVars, sock_calls,
                 interrupted>>

\* after the loop, a statement a step: the test of server_sock ("exit"), the
\* close of the handle that was tested ("final_close"), which does not mark
\* server_sock invalid, and platform_cleanup and return 0 ("return").  When
\* the handler has run between the test and the close, the handle main passes
\* to close is the one it tested or the one it reads again
Exit ==
  /\ pc \in {"exit", "final_close", "return"}
  /\ \E h \in (IF pc = "final_close" THEN {"open", server_sock} ELSE {server_sock}) :
       sock_calls' = IF pc = "final_close" THEN Append(sock_calls, CloseCall(h))
                     ELSE sock_calls
  /\ pc' = CASE pc = "exit" -> IF server_sock # "invalid" THEN "final_close"
                               ELSE "return"
             [] pc = "final_close" -> "return"
             [] OTHER -> "done"
  /\ exit_status' = IF pc = "return" THEN 0 ELSE exit_status
  /\ UNCHANGED <<running, server_sock, fs, clients, connVars, lastConf, argv, port,
                 interrupted>>

\* the server, sent the requests of the route family
Next ==
  \/ Interrupt
  \/ LoopTest
  \/ Accept(RouteFamily)
  \/ AcceptFails
  \/ HandleRequest
  \/ RecvBody
  \/ SystemReturns
  \/ CloseClient
  \/ Exit

Spec == Init /\ [][Next]_vars

\* the same server, sent the requests of the save family
NextSave ==
  \/ Interrupt
  \/ LoopTest
  \/ Accept(SaveFamily)
  \/ AcceptFails
  \/ HandleRequest
  \/ RecvBody
  \/ SystemReturns
  \/ CloseClient
  \/ Exit

SpecSave == Init /\ [][NextSave]_vars

\* the same server, sent the requests of the path family
NextPaths ==
  \/ Interrupt
  \/ LoopTest
  \/ Accept(PathFamily)
  \/ AcceptFails
  \/ HandleRequest
  \/ RecvBody
  \/ SystemReturns
  \/ CloseClient
  \/ Exit

SpecPaths == Init /\ [][NextPaths]_vars

\* main entered with a command line, nothing done yet
InitMain ==
  /\ running = 1
  /\ server_sock = "invalid"
  /\ pc = "start"
  /\ argv \in CommandLines
  /\ port = DefaultPort
  /\ exit_status = -1
  /\ sock_calls = <<>>
  /\ interrupted = FALSE
  /\ fs \in InitialFs
  /\ clients = 0
  /\ stream = <<>>
  /\ inbuf = <<>>
  /\ method = <<>>
  /\ raw_path = <<>>
  /\ handler = "none"
  /\ bodyOk = FALSE
  /\ body = <<>>
  /\ remaining = 0
  /\ sent = <<>>
  /\ recvs = 0
  /\ fsArgs = <<>>
  /\ invoked = <<>>
  /\ faults = {}
  /\ lastConf = <<>>

\* the server from the entry of main, sent the requests of the main family
NextMain ==
  \/ ParsePort
  \/ OpenListener
  \/ Interrupt
  \/ LoopTest
  \/ Accept(MainFamily)
  \/ AcceptFails
  \/ HandleRequest
  \/ RecvBody
  \/ SystemReturns
  \/ CloseClient
  \/ Exit

SpecMain == InitMain /\ [][NextMain]_vars

\* the server in a directory of files of every type
InitMime ==
  /\ running = 1
  /\ server_sock = "open"
  /\ pc = "loop"
  /\ argv = <<>>
  /\ port = DefaultPort
  /\ exit_status = -1
  /\ sock_calls = <<"socket", "bind", "listen">>
  /\ interrupted = FALSE
  /\ fs = FsMime
  /\ clients = 0
  /\ stream = <<>>
  /\ inbuf = <<>>
  /\ method = <<>>
  /\ raw_path = <<>>
  /\ handler = "none"
  /\ bodyOk = FALSE
  /\ body = <<>>
  /\ remaining = 0
  /\ sent = <<>>
  /\ recvs = 0
  /\ fsArgs = <<>>
  /\ invoked = <<>>
  /\ faults = {}
  /\ lastConf = <<>>

NextMime ==
  \/ Interrupt
  \/ LoopTest
  \/ Accept(MimeFamily)
  \/ AcceptFails
  \/ HandleRequest
  \/ RecvBody
  \/ SystemReturns
  \/ CloseClient
  \/ Exit

SpecMime == InitMime /\ [][NextMime]_vars

\* the server in a directory with each deploy.conf
InitConf ==
  /\ running = 1
  /\ server_sock = "open"
  /\ pc = "loop"
  /\ argv = <<>>
  /\ port = DefaultPort
  /\ exit_status = -1
  /\ sock_calls = <<"socket", "bind", "listen">>
  /\ interrupted = FALSE
  /\ fs \in FsConf
  /\ clients = 0
  /\ stream = <<>>
  /\ inbuf = <<>>
  /\ method = <<>>
  /\ raw_path = <<>>
  /\ handler = "none"
  /\ bodyOk = FALSE
  /\ body = <<>>
  /\ remaining = 0
  /\ sent = <<>>
  /\ recvs = 0
  /\ fsArgs = <<>>
  /\ invoked = <<>>
  /\ faults = {}
  /\ lastConf = <<>>

NextConf ==
  \/ Interrupt
  \/ LoopTest
  \/ Accept(ConfFamily)
  \/ AcceptFails
  \/ HandleRequest
  \/ RecvBody
  \/ SystemReturns
  \/ CloseClient
  \/ Exit

SpecConf == InitConf /\ [][NextConf]_vars

(***************************************************************************)
(* Vocabulary of the properties: a request as its sender wrote it, read    *)
(* off the bytes of the connection, and the answer it got.                 *)
(***************************************************************************)
Contains(s, p) == \E i \in 1..(Len(s) - Len(p) + 1) : SubSeq(s, i, i + Len(p) - 1) = p

StartsWith(s, p) == Len(s) >= Len(p) /\ SubSeq(s, 1, Len(p)) = p

EndsWith(s, p) == Len(s) >= Len(p) /\ SubSeq(s, Len(s) - Len(p) + 1, Len(s)) = p

\* index of the first byte c of s, Len+1 when there is none
FirstAt(s, c) ==
  LET hits == {i \in 1..Len(s) : s[i] = c}
  IN  IF hits = {} THEN Len(s) + 1 ELSE MinOf(hits)

\* the method, the target and the target's path of a request
ReqMethod(r) == SubSeq(r, 1, FirstAt(r, 32) - 1)

ReqTarget(r) ==
  LET rest == SubSeq(r, FirstAt(r, 32) + 1, Len(r))
  IN  SubSeq(rest, 1, FirstAt(rest, 32) - 1)

ReqPath(r) == SubSeq(ReqTarget(r), 1, FirstAt(ReqTarget(r), 63) - 1)

\* the request line and header lines with the blank line, and the body
ReqHead(r) == SubSeq(r, 1, HeadLen(r))

ReqBody(r) == SubSeq(r, HeadLen(r) + 1, Len(r))

\* the path of a request as the server percent-decodes it, NUL bytes included
ReqDecoded(r) == UrlDecodeFrom(ReqPath(r), 1, <<>>)

\* a header line of the request starts with the given text
HasHeader(r, text) == Contains(ReqHead(r), s_CRLF \o text)

\* the request has a header named Content-Length, in either spelling
HasContentLength(r) == HasHeader(r, s_Content_Length) \/ HasHeader(r, s_content_length)

\* the value of that header
DeclaredLength(r) ==
  LET h == ReqHead(r)
      at(t) == MinOf({i \in 1..Len(h) : SubSeq(h, i, Min(Len(h), i + Len(t) - 1)) = t})
  IN  IF HasHeader(r, s_Content_Length)
        THEN Atol(h, at(s_CRLF \o s_Content_Length) + 17)
        ELSE Atol(h, at(s_CRLF \o s_content_length) + 17)

\* the first read took the request line and the headers whole: what is left
\* unread of the connection is body
HeadReceived == Len(inbuf) <= Len(ReqBody(stream))

\* handle_request has returned and a response was sent
Answered == pc = "close" /\ sent # <<>>

Status == sent[1].status

\* the (method, path) pairs of the Route Table and their handlers
RouteTable ==
  {<<s_POST, s_api_save, "handle_api_save">>,
   <<s_POST, s_api_build, "handle_api_build">>,
   <<s_POST, s_api_deploy, "handle_api_deploy">>,
   <<s_POST, s_api_deploy_config, "handle_api_deploy_config_post">>,
   <<s_GET, s_api_deploy_config, "handle_api_deploy_config_get">>}

ApiPaths == {s_api_save, s_api_build, s_api_deploy, s_api_deploy_config}

\* a body is a JSON object with an "error" string field; a body is HTML
IsJsonError(b) == StartsWith(b, s_json_error_open) /\ EndsWith(b, s_json_repo_close)

IsHtml(b) == StartsWith(b, s_html_tag)

(***************************************************************************)
(* C1.  Original statement: every request whose percent-decoded path       *)
(* contains ".." is answered 403, whatever its method.                     *)
(***************************************************************************)
C1_AnyMethodForbidden ==
  (Answered /\ Contains(ReqDecoded(stream), s_dotdot)) => Status = 403

\* C1, amended: every GET request whose path, as the server decodes it and
\* read up to its first NUL byte, contains ".." is answered 403, and no file
\* is looked up for it.
C1_GetForbidden ==
  (Answered /\ ReqMethod(stream) = s_GET
     /\ Contains(SubSeq(ReqDecoded(stream), 1, FirstAt(ReqDecoded(stream), 0) - 1), s_dotdot))
  => (Status = 403 /\ fsArgs = <<>>)

\* a GET whose ".." is spelled with a percent escape has been answered 403
C1_Witness ==
  /\ Answered
  /\ ReqMethod(stream) = s_GET
  /\ Contains(ReqPath(stream), <<37, 50, 101>>)
  /\ ~Contains(ReqPath(stream), s_dotdot)
  /\ Contains(ReqDecoded(stream), s_dotdot)
  /\ Status = 403

(***************************************************************************)
(* C2.  For a GET that passes the sanitizer, no path given to stat or      *)
(* fopen begins with '/' or contains "..".                                 *)
(***************************************************************************)
C2_RelativePath ==
  \A i \in 1..Len(fsArgs) : fsArgs[i][1] # 47 /\ ~Contains(fsArgs[i], s_dotdot)

(***************************************************************************)
(* C3.  A POST /api/save whose Content-Length header gives the length of   *)
(* its body B, with no call failing, however B is split over the reads, is *)
(* answered 200 and leaves crissy-data.json equal to B when B is not       *)
(* empty, and is answered 400 when it is.                                  *)
(***************************************************************************)
C3_SaveRoundTrip ==
  (/\ Answered
   /\ ReqMethod(stream) = s_POST
   /\ ReqPath(stream) = s_api_save
   /\ HasHeader(stream, ContentLength(Len(ReqBody(stream))))
   /\ HeadReceived
   /\ faults = {})
  => IF ReqBody(stream) = <<>> THEN Status = 400
     ELSE Status = 200 /\ fs[CrissyKey] = File(ReqBody(stream))

(***************************************************************************)
(* C5.  A POST whose path, the query cut off, is none of the four API      *)
(* paths is answered 404, and a request whose method is neither GET nor    *)
(* POST is answered 405.                                                   *)
(***************************************************************************)
C5_UnknownPostAndMethod ==
  Answered =>
    /\ (ReqMethod(stream) = s_POST /\ ReqPath(stream) \notin ApiPaths) => Status = 404
    /\ ReqMethod(stream) \notin {s_GET, s_POST} => Status = 405

\* a DELETE of a path that decodes to ".." has been answered 405
C5_Witness ==
  /\ Answered
  /\ ReqMethod(stream) = s_DELETE
  /\ Contains(ReqDecoded(stream), s_dotdot)
  /\ Status = 405

C9_NoBodyNoRead ==
  (/\ pc \in {"body", "close"}
   /\ handler \in BodyHandlers
   /\ \/ ~HasContentLength(stream)
      \/ DeclaredLength(stream) <= 0
      \/ DeclaredLength(stream) > MaxContentLength)
  => (pc = "close" /\ recvs = 1 /\ ~bodyOk /\ Status = 400)

(***************************************************************************)
(* C4.  Original statement: after a POST /api/deploy-config with body      *)
(* {"repo":"V"}, V free of double quotes, answered 200, a GET              *)
(* /api/deploy-config with no write in between returns {"repo":"V"}.       *)
(***************************************************************************)
\* the V of a body {"repo":"V"}
RepoValueOf(b) == SubSeq(b, Len(s_json_repo_open) + 1, Len(b) - Len(s_json_repo_close))

IsRepoBody(b) ==
  /\ Len(b) >= Len(s_json_repo_open) + Len(s_json_repo_close)
  /\ StartsWith(b, s_json_repo_open)
  /\ EndsWith(b, s_json_repo_close)
  /\ \A i \in 1..Len(RepoValueOf(b)) : RepoValueOf(b)[i] # 34

\* a GET /api/deploy-config has been answered, and deploy.conf was last written
\* by a 200-answered POST of a body {"repo":"V"}
GetAfterPost ==
  /\ Answered
  /\ handler = "handle_api_deploy_config_get"
  /\ lastConf # <<>>
  /\ IsRepoBody(lastConf[1])

C4_RoundTrip == GetAfterPost => sent[1].body = lastConf[1]

\* a value that a line of deploy.conf holds as written: no NUL and no line
\* feed, no space, carriage return or line feed at its end, and short enough
\* for "repo=" and it to fit one fgets of line[1024]
PlainValue(v) ==
  /\ \A i \in 1..Len(v) : v[i] \notin {0, 10}
  /\ v = <<>> \/ v[Len(v)] \notin {32, 13}
  /\ Len(v) <= LineSize - 6

\* C4, amended: the round trip holds for every V that has no double quote, no
\* NUL byte and no line feed, does not end in a space or a carriage return,
\* and is at most 1018 bytes long; a repeated POST of the same V changes
\* nothing.
C4_PlainRoundTrip ==
  (GetAfterPost /\ PlainValue(RepoValueOf(lastConf[1]))) => sent[1].body = lastConf[1]

\* the GET that follows a POST of {"repo":"u\rv"} has returned that body
C4_Witness ==
  /\ GetAfterPost
  /\ RepoValueOf(lastConf[1]) = <<117, 13, 118>>
  /\ Status = 200
  /\ sent[1].body = RepoBody(<<117, 13, 118>>)

(***************************************************************************)
(* C7.  Every response carries Content-Type, Content-Length, "Connection:  *)
(* close" and "Access-Control-Allow-Origin: *", and its Content-Length is  *)
(* the number of body bytes handed to send_response.                       *)
(***************************************************************************)
C7_Headers ==
  \A i \in 1..Len(sent) :
    /\ Len(sent[i].headers) = 4
    /\ sent[i].headers[1][1] = "Content-Type"
    /\ sent[i].headers[2][1] = "Content-Length"
    /\ sent[i].headers[2][2] = Len(sent[i].body)
    /\ sent[i].headers[3] = <<"Connection", "close">>
    /\ sent[i].headers[4] = <<"Access-Control-Allow-Origin", "*">>

\* a file holding a NUL byte was sent whole, with its size as Content-Length
C7_Witness ==
  /\ Answered
  /\ handler = "static"
  /\ Status = 200
  /\ Contains(sent[1].body, <<0>>)
  /\ sent[1].headers[2][2] = 3

(***************************************************************************)
(* C8.  An error response (400, 404, 500) to a request for an API route    *)
(* has a JSON object body with an "error" string field, and one to any     *)
(* other request has an HTML body.                                         *)
(***************************************************************************)
C8_ErrorBodies ==
  (Answered /\ Status \in {400, 404, 500}) =>
    IF \E rt \in RouteTable : ReqMethod(stream) = rt[1] /\ ReqPath(stream) = rt[2]
      THEN IsJsonError(sent[1].body)
      ELSE IsHtml(sent[1].body)

(***************************************************************************)
(* C10.  At most one client connection is open, and none is while main is  *)
(* at the loop test, in accept or past the loop: every accepted connection *)
(* is handled and closed before the next accept.                           *)
(***************************************************************************)
C10_OneAtATime ==
  /\ clients \in {0, 1}
  /\ pc \in {"start", "socket", "bind", "listen", "failed", "return1", "loop",
            "accept", "exit", "final_close", "return", "done"} => clients = 0
  /\ pc \in {"handle", "body", "system", "close"} => clients = 1

\* a second connection has been accepted after a save was served
C10_Witness ==
  /\ pc = "handle"
  /\ clients = 1
  /\ sent = <<>>
  /\ fs[CrissyKey].kind = "file"

(***************************************************************************)
(* C11.  An interrupt signal sent at any point of the accept loop sets the *)
(* stop flag and closes the listening socket, no connection is accepted    *)
(* afterwards, and main returns 0 when the loop has ended.                 *)
(***************************************************************************)
\* the listening socket was closed: close is the last call made on it
ListenerClosed == sock_calls # <<>> /\ sock_calls[Len(sock_calls)] = "close"

C11_InterruptStops ==
  /\ interrupted => (running = 0 /\ server_sock = "invalid" /\ ListenerClosed)
  /\ (interrupted /\ pc = "accept") => ~ENABLED Accept(RouteFamily)
  /\ pc = "done" => exit_status = 0

(***************************************************************************)
(* C12.  The Content-Type of a 200 response that serves a file is the MIME *)
(* table's entry for the extension the file's name ends with, and          *)
(* application/octet-stream when it ends with none of them.                *)
(***************************************************************************)
\* the file served: the path given to fopen, as a C string
ServedName == CStr(fsArgs[Len(fsArgs)])

ContentType == sent[1].headers[1][2]

FileServed == Answered /\ handler = "static" /\ Status = 200

C12_ContentType ==
  FileServed =>
    /\ \A i \in 1..Len(mime_table) :
         EndsWith(ServedName, mime_table[i][1]) => ContentType = mime_table[i][2]
    /\ (\A i \in 1..Len(mime_table) : ~EndsWith(ServedName, mime_table[i][1]))
         => ContentType = "application/octet-stream"

\* "x.woff2" was served as font/woff2
C12_Witness ==
  /\ FileServed
  /\ ServedName = <<120, 46, 119, 111, 102, 102, 50>>
  /\ ContentType = "font/woff2"
  /\ sent[1].body = ServedName

(***************************************************************************)
(* C13.  GET / is answered as GET /manage.html is, with the same status,   *)
(* body and Content-Type, whatever manage.html is: a file, a directory or  *)
(* missing.                                                                *)
(***************************************************************************)
GetRoot == Request(s_GET, <<47>>, <<>>, <<>>)

GetManage == Request(s_GET, <<47>> \o s_manage_html, <<>>, <<>>)

\* the responses to a request received whole, malloc and fopen failing or not
ResponsesTo(f, req, mallocOk, fopenOk) == Dispatch(f, req, Len(req), mallocOk, fopenOk).sent

C13_RootIsManage ==
  /\ \A e \in {NoEnt, Dir, File(<<109>>)}, mallocOk \in BOOLEAN, fopenOk \in BOOLEAN :
       ResponsesTo([fs EXCEPT ![Rel(s_manage_html)] = e], GetRoot, mallocOk, fopenOk)
         = ResponsesTo([fs EXCEPT ![Rel(s_manage_html)] = e], GetManage, mallocOk, fopenOk)
  /\ (Answered /\ stream = GetRoot) =>
       \E mallocOk \in BOOLEAN, fopenOk \in BOOLEAN :
         sent = ResponsesTo(fs, GetManage, mallocOk, fopenOk)

\* GET / was answered with the bytes of manage.html
C13_Witness ==
  /\ Answered
  /\ stream = GetRoot
  /\ Status = 200
  /\ sent[1].body = fs[Rel(s_manage_html)].data
  /\ ContentType = "text/html; charset=utf-8"

(***************************************************************************)
(* C14.  A GET whose path resolves to a directory is answered 403 when the *)
(* directory has no regular file index.html and, no call failing, 200 with *)
(* the bytes of that index.html when it has; a 200 response carries        *)
(* nothing else.                                                           *)
(***************************************************************************)
\* a GET was answered whose file path is a directory
DirAnswered == Answered /\ handler = "static" /\ Stat(fs, fsArgs[1]).kind = "dir"

\* the index.html of that directory
IndexEntry == Stat(fs, fsArgs[1] \o <<47>> \o s_index_html)

C14_DirectoryIndex ==
  DirAnswered =>
    /\ IndexEntry.kind # "file" => Status = 403
    /\ (IndexEntry.kind = "file" /\ faults = {}) => Status = 200
    /\ Status = 200 => (IndexEntry.kind = "file" /\ sent[1].body = IndexEntry.data)

\* the directory "a" was asked for and its index.html sent
C14_Witness ==
  /\ DirAnswered
  /\ CStr(fsArgs[1]) = s_a
  /\ Status = 200
  /\ sent[1].body = <<105>>

(***************************************************************************)
(* C15.  GET /api/deploy-config is always answered 200 with the body       *)
(* {"repo":"V"}: V is the value of the first line of deploy.conf that      *)
(* starts with "repo=", the spaces and carriage returns at the end of the  *)
(* line not counted, and V is empty when there is no deploy.conf or no     *)
(* such line.                                                              *)
(***************************************************************************)
\* the lines of a file, without their line feeds
RECURSIVE LinesOf(_)
LinesOf(d) ==
  IF d = <<>> THEN <<>>
  ELSE IF \E j \in 1..Len(d) : d[j] = 10
    THEN LET j == CHOOSE j \in 1..Len(d) : d[j] = 10 /\ \A k \in 1..(j - 1) : d[k] # 10
         IN  <<SubSeq(d, 1, j - 1)>> \o LinesOf(SubSeq(d, j + 1, Len(d)))
  ELSE <<d>>

\* a line without the spaces and carriage returns at its end
Stripped(l) ==
  LET keep == {n \in 0..Len(l) : n = 0 \/ l[n] \notin {13, 32}}
  IN  SubSeq(l, 1, CHOOSE n \in keep : \A m \in keep : m <= n)

\* the value of the first line that starts with "repo=", empty without one
ConfValue(d) ==
  LET ls == LinesOf(d)
      at == {i \in 1..Len(ls) : StartsWith(Stripped(ls[i]), s_repo_eq)}
  IN  IF at = {} THEN <<>>
      ELSE LET l == Stripped(ls[CHOOSE i \in at : \A k \in at : i <= k])
           IN  SubSeq(l, 6, Len(l))

\* a GET /api/deploy-config has been answered
ConfigRead == Answered /\ handler = "handle_api_deploy_config_get"

ConfigSaved ==
  Answered /\ handler = "handle_api_deploy_config_post" /\ Status = 200

C16_RewrittenWholesale ==
  ConfigSaved =>
    /\ fs[ConfKey].kind = "file"
    /\ LET ls == LinesOf(fs[ConfKey].data)
       IN  /\ Len(ls) = 2
           /\ StartsWith(ls[1], <<35>>)
           /\ StartsWith(ls[2], s_repo_eq)

\* the same for the requests whose body has no line feed
C16_NoLineFeed ==
  (ConfigSaved /\ \A i \in 1..Len(body) : body[i] # 10) =>
    /\ fs[ConfKey].kind = "file"
    /\ LET ls == LinesOf(fs[ConfKey].data)
       IN  /\ Len(ls) = 2
           /\ StartsWith(ls[1], <<35>>)
           /\ StartsWith(ls[2], s_repo_eq)

(***************************************************************************)
(* C17.  A POST /api/deploy-config whose body is not empty and holds no    *)
(* "repo" key followed by a colon and a quoted string is answered 200, no  *)
(* call failing, and deploy.conf is rewritten with an empty repo value.    *)
(***************************************************************************)
\* the body holds "repo", a colon after it, and two double quotes after that
HasRepoString(b) ==
  \E k \in 1..Len(b) :
    /\ k + 5 <= Len(b)
    /\ SubSeq(b, k, k + 5) = s_repo_key
    /\ \E c \in (k + 6)..Len(b) :
         /\ b[c] = 58
         /\ \E q1 \in c..Len(b) : \E q2 \in (q1 + 1)..Len(b) : b[q1] = 34 /\ b[q2] = 34

\* a POST /api/deploy-config with such a body, read whole, has been answered
KeylessPosted ==
  /\ Answered
  /\ handler = "handle_api_deploy_config_post"
  /\ faults = {}
  /\ body = ReqBody(stream)
  /\ body # <<>>
  /\ ~HasRepoString(body)

C17_KeylessSaved ==
  KeylessPosted =>
    /\ Status = 200
    /\ ~IsJsonError(sent[1].body)
    /\ fs[ConfKey] = File(s_conf_comment \o s_repo_eq \o <<10>>)

\* the body {"repo":7} was answered 200 and the file written
C17_Witness ==
  /\ KeylessPosted
  /\ body = <<123, 34, 114, 101, 112, 111, 34, 58, 55, 125>>
  /\ Status = 200
  /\ fs[ConfKey] = File(s_conf_comment \o s_repo_eq \o <<10>>)

(***************************************************************************)
(* C18.  POST /api/build and POST /api/deploy answer 200 with a JSON       *)
(* success body exactly when a tool was found and invoked and returned     *)
(* status 0.  When no tool is found (for deploy: deploy/deploy is missing, *)
(* with or without deploy/deploy.c) nothing is invoked and the answer is   *)
(* 500; a nonzero status gives 500 too; both carry a JSON error body.      *)
(***************************************************************************)
\* a build or deploy request has been answered
ToolAnswered ==
  Answered /\ handler \in {"handle_api_build", "handle_api_deploy"}

\* the tool the handler looks for is in the working directory
ToolFound ==
  IF handler = "handle_api_build"
    THEN Stat(fs, s_portfolio_build).kind # "none" \/ Stat(fs, s_build_go).kind # "none"
    ELSE Stat(fs, s_deploy_deploy).kind # "none"

IsJsonOk(b) == StartsWith(b, <<123, 34, 111, 107, 34, 58, 116, 114, 117, 101>>)

C18_ToolStatus ==
  ToolAnswered =>
    /\ Status \in {200, 500}
    /\ ContentType = "application/json; charset=utf-8"
    /\ Status = 200 <=> (ToolFound /\ invoked # <<>> /\ invoked[1].ret = <<0>>)
    /\ Status = 200 => IsJsonOk(sent[1].body)
    /\ Status = 500 => IsJsonError(sent[1].body)
    /\ ~ToolFound => invoked = <<>>
    /\ ToolFound => (Len(invoked) = 1 /\ Len(invoked[1].ret) = 1)

\* deploy/deploy was found, ran and returned 0: 200 with the success body
C18_Witness ==
  /\ ToolAnswered
  /\ handler = "handle_api_deploy"
  /\ ToolFound
  /\ invoked = <<[cmd |-> "./deploy/deploy", ret |-> <<0>>]>>
  /\ Status = 200
  /\ sent[1].body = msg_deploy_ok

(***************************************************************************)
(* C19.  A port argument that is not a number, or is a number outside      *)
(* 1..65535, makes the process exit with a nonzero status without a call   *)
(* of socket, bind or listen; a number in 1..65535 is the listening port;  *)
(* without an argument the port is 9090.                                   *)
(***************************************************************************)
\* the argument is a string of decimal digits
Numeric(a) == a # <<>> /\ \A i \in 1..Len(a) : a[i] \in 48..57

\* the number a string of digits denotes, capped above every port
RECURSIVE NumberOf(_)
NumberOf(a) ==
  IF a = <<>> THEN 0
  ELSE Min(10 * NumberOf(SubSeq(a, 1, Len(a) - 1)) + (a[Len(a)] - 48), 10 * MaxPort)

\* the argument is a number in 1..65535
PortInRange(a) == Numeric(a) /\ NumberOf(a) \in 1..MaxPort

\* main is past its look at the command line
ArgumentSeen == pc # "start"

C19_PortArgument ==
  ArgumentSeen =>
    /\ argv = <<>> => port = DefaultPort
    /\ (argv # <<>> /\ PortInRange(argv[1])) => port = NumberOf(argv[1])
    /\ (argv # <<>> /\ ~PortInRange(argv[1])) =>
         (pc = "done" /\ exit_status # 0 /\ sock_calls = <<>>)

\* an argument that is a number within the range of int, or that does not
\* start with a digit, a blank or a plus sign
PlainArgument(a) ==
  \/ Numeric(a) /\ Len(a) <= 9
  \/ a = <<>>
  \/ a # <<>> /\ a[1] \notin (48..57) \cup {32, 43}

\* the same for plain arguments
C19_PlainArguments ==
  (ArgumentSeen /\ (argv = <<>> \/ PlainArgument(argv[1]))) =>
    /\ argv = <<>> => port = DefaultPort
    /\ (argv # <<>> /\ PortInRange(argv[1])) => port = NumberOf(argv[1])
    /\ (argv # <<>> /\ ~PortInRange(argv[1])) =>
         (pc = "done" /\ exit_status # 0 /\ sock_calls = <<>>)

(***************************************************************************)
(* C20.  The length the body reader works with is the value of the         *)
(* Content-Length header of the header block: a handler has a body only    *)
(* when the request has that header, the reader reads up to that many      *)
(* bytes, and, no call failing, the body it returns has that length.       *)
(***************************************************************************)
C20_HeaderLength ==
  /\ pc = "body" =>
       (HasContentLength(stream) /\ Len(body) + remaining = DeclaredLength(stream))
  /\ (Answered /\ handler \in BodyHandlers /\ bodyOk) =>
       (HasContentLength(stream) /\ (faults = {} => Len(body) = DeclaredLength(stream)))

\* the text "Content-Length:" occurs in the request where no header line of
\* the header block starts
Decoyed ==
  \E i \in 1..Len(stream) :
    /\ i + Len(s_Content_Length) - 1 <= Len(stream)
    /\ SubSeq(stream, i, i + Len(s_Content_Length) - 1) = s_Content_Length
    /\ ~(i >= 3 /\ SubSeq(stream, i - 2, i - 1) = s_CRLF /\ i <= HeadLen(stream))

\* the same for the requests without such text
C20_NoDecoy ==
  ~Decoyed =>
    /\ pc = "body" =>
         (HasContentLength(stream) /\ Len(body) + remaining = DeclaredLength(stream))
    /\ (Answered /\ handler \in BodyHandlers /\ bodyOk) =>
         (HasContentLength(stream) /\ (faults = {} => Len(body) = DeclaredLength(stream)))

(***************************************************************************)
(* C21.  A POST /api/save whose Content-Length header, its name written in *)
(* any letter case, gives the length of a body that is not empty is given  *)
(* that body by the reader: no call failing, it is answered 200 and the    *)
(* body saved.                                                             *)
(***************************************************************************)
\* a text with its capital letters made small
Lower(s) == [i \in 1..Len(s) |-> IF s[i] \in 65..90 THEN s[i] + 32 ELSE s[i]]

\* the header block has a line "Content-Length: n", the name in any case
HasHeaderAnyCase(r, n) ==
  Contains(Lower(ReqHead(r)), s_CRLF \o s_content_length \o <<32>> \o Dec(n) \o s_CRLF)

\* a POST /api/save with such a header for its body has been answered
SaveAnswered ==
  /\ Answered
  /\ ReqMethod(stream) = s_POST
  /\ ReqPath(stream) = s_api_save
  /\ HeadReceived
  /\ faults = {}

C21_AnyCase ==
  (/\ SaveAnswered
   /\ ReqBody(stream) # <<>>
   /\ HasHeaderAnyCase(stream, Len(ReqBody(stream)))
   /\ ~Decoyed)
  => (bodyOk /\ Status = 200 /\ fs[CrissyKey] = File(ReqBody(stream)))

\* the same for the two spellings Content-Length and content-length
C21_TwoSpellings ==
  (/\ SaveAnswered
   /\ ReqBody(stream) # <<>>
   /\ \/ HasHeader(stream, ContentLength(Len(ReqBody(stream))))
      \/ HasHeader(stream, LowerContentLength(Len(ReqBody(stream))))
   /\ ~Decoyed)
  => (bodyOk /\ Status = 200 /\ fs[CrissyKey] = File(ReqBody(stream)))

(***************************************************************************)
(* C22.  When the peer of a POST /api/save closes after k bytes of a body  *)
(* declared with a valid Content-Length L > k, the read that returns       *)
(* nothing ends the loop and the handler: for k > 0 the k bytes are saved  *)
(* and the answer is 200, for k = 0 the answer is 400 and no file changes. *)
(***************************************************************************)
\* the read loop of handle_api_save ends in this step: everything the peer
\* sent has been read, and it is less than the valid length L of the header
ShortBodyStep ==
  /\ pc = "body"
  /\ pc' = "close"
  /\ handler = "handle_api_save"
  /\ inbuf = <<>>
  /\ ~Decoyed
  /\ HasContentLength(stream)
  /\ DeclaredLength(stream) \in 1..MaxContentLength
  /\ Len(ReqBody(stream)) < DeclaredLength(stream)
  /\ "fopen" \notin faults'

C22_ShortBody ==
  [][ShortBodyStep =>
       /\ body' = ReqBody(stream)
       /\ Len(sent') = 1
       /\ IF ReqBody(stream) = <<>>
            THEN sent'[1].status = 400 /\ fs' = fs
            ELSE /\ sent'[1].status = 200
                 /\ fs' = [fs EXCEPT ![CrissyKey] = File(ReqBody(stream))]]_vars

\* one byte of a body of 10 MiB came, the peer closed, the byte was saved
C22_Witness ==
  /\ Answered
  /\ handler = "handle_api_save"
  /\ HasContentLength(stream)
  /\ DeclaredLength(stream) = MaxContentLength
  /\ ReqBody(stream) = <<97>>
  /\ faults = {"recv"}
  /\ Status = 200
  /\ fs[CrissyKey] = File(<<97>>)

(***************************************************************************)
(* C23.  What follows the first '?' of the target has no effect: a request *)
(* for T?q is routed as the request for T is, looks at the same files and, *)
(* where no body is read and no tool run, gets the same response.  An      *)
(* encoded question mark cuts nothing: %3F reaches the file path as '?',   *)
(* and only so does a '?' reach it.                                        *)
(***************************************************************************)
\* the request with its target cut at the first '?'
WithoutQuery(r) ==
  ReqMethod(r) \o <<32>> \o ReqPath(r)
    \o SubSeq(r, Len(ReqMethod(r)) + Len(ReqTarget(r)) + 2, Len(r))

\* a request whose target has a query after a path that is not empty was answered
QueryAnswered ==
  /\ Answered
  /\ ReqPath(stream) # ReqTarget(stream)
  /\ ReqPath(stream) # <<>>

C23_QueryDropped ==
  /\ QueryAnswered =>
       \E mallocOk \in BOOLEAN, fopenOk \in BOOLEAN :
         LET d == Dispatch(fs, WithoutQuery(stream), Len(WithoutQuery(stream)),
                           mallocOk, fopenOk)
         IN  /\ d.handler = handler
             /\ d.raw_path = raw_path
             /\ d.fsArgs = fsArgs
             /\ handler \notin BodyHandlers \cup ToolHandlers => d.sent = sent
  /\ (Answered /\ handler = "static") =>
       ((\E i \in 1..Len(fsArgs[1]) : fsArgs[1][i] = 63)
          <=> (Contains(ReqPath(stream), <<37, 51, 70>>)
                 \/ Contains(ReqPath(stream), <<37, 51, 102>>)))

\* GET /a??, with "a" a file, was answered with the file
C23_Witness ==
  /\ QueryAnswered
  /\ ReqMethod(stream) = s_GET
  /\ ReqTarget(stream) = <<47, 97, 63, 63>>
  /\ CStr(fsArgs[1]) = s_a
  /\ Status = 200
  /\ sent[1].body = <<120, 0, 121>>

(***************************************************************************)
(* C24.  The path of a GET is its raw path decoded in one pass from left   *)
(* to right: a '%' followed by two hexadecimal digits becomes the byte of  *)
(* that value and three characters are consumed; every other character, a  *)
(* '%' with fewer than two characters after it included, is copied as it   *)
(* is; nothing is decoded twice.                                           *)
(***************************************************************************)
\* the decoding the statement describes, from index i on
RECURSIVE PercentDecoded(_, _)
PercentDecoded(raw, i) ==
  IF i > Len(raw) THEN <<>>
  ELSE IF raw[i] = 37 /\ i + 2 <= Len(raw) /\ IsHex(raw[i + 1]) /\ IsHex(raw[i + 2])
    THEN <<16 * HexVal(raw[i + 1]) + HexVal(raw[i + 2])>> \o PercentDecoded(raw, i + 3)
    ELSE <<raw[i]>> \o PercentDecoded(raw, i + 1)

\* the name such a path gives the file: the C string without one leading '/',
\* manage.html when nothing is left
FileOf(path) ==
  LET p   == IF \E j \in 1..Len(path) : path[j] = 0
               THEN SubSeq(path, 1, (CHOOSE j \in 1..Len(path) :
                                       path[j] = 0 /\ \A k \in 1..(j - 1) : path[k] # 0) - 1)
               ELSE path
      rel == IF p # <<>> /\ p[1] = 47 THEN SubSeq(p, 2, Len(p)) ELSE p
  IN  IF rel = <<>> THEN s_manage_html ELSE rel

\* a GET for a file has been answered
StaticAnswered == Answered /\ handler = "static"

C24_OnePass ==
  StaticAnswered => CStr(fsArgs[1]) = FileOf(PercentDecoded(raw_path, 1))

\* a '%' the pass meets is followed by two hexadecimal digits or by fewer
\* than two characters
RECURSIVE WellEscaped(_, _)
WellEscaped(raw, i) ==
  IF i > Len(raw) THEN TRUE
  ELSE IF raw[i] # 37 THEN WellEscaped(raw, i + 1)
  ELSE IF i + 2 > Len(raw) THEN WellEscaped(raw, i + 1)
  ELSE IsHex(raw[i + 1]) /\ IsHex(raw[i + 2]) /\ WellEscaped(raw, i + 3)

\* the same for raw paths without a malformed escape
C24_WellEscaped ==
  (StaticAnswered /\ WellEscaped(raw_path, 1)) =>
    CStr(fsArgs[1]) = FileOf(PercentDecoded(raw_path, 1))

(***************************************************************************)
(* C25.  A GET whose decoded path, one leading '/' stripped, begins with   *)
(* a single letter followed by ':' is answered 403, and a decoded path     *)
(* that neither contains ".." nor has that form is not rejected by the     *)
(* sanitizer.                                                              *)
(***************************************************************************)
\* the path of the request as the server decodes it, up to its first NUL
DecodedPath ==
  SubSeq(ReqDecoded(stream), 1, FirstAt(ReqDecoded(stream), 0) - 1)

\* a path without one leading byte c
Without(p, c) == IF p # <<>> /\ p[1] = c THEN SubSeq(p, 2, Len(p)) ELSE p

\* a letter and a colon
DriveLetterForm(p) == Len(p) >= 2 /\ p[1] \in (65..90) \cup (97..122) /\ p[2] = 58

\* a GET that reached the sanitizer has been answered
Sanitized == Answered /\ handler \in {"static", "forbidden"}

C25_DriveLetter ==
  Sanitized =>
    /\ DriveLetterForm(Without(DecodedPath, 47)) => Status = 403
    /\ (~Contains(DecodedPath, s_dotdot) /\ ~DriveLetterForm(Without(DecodedPath, 47)))
         => handler # "forbidden"

\* what the sanitizer does: a GET whose decoded path, one leading '/' and then
\* one leading '\' stripped, has ':' as its second character, whatever the
\* first, is answered 403; a decoded path that neither contains ".." nor has
\* that form is not rejected.
C25_ColonSecond ==
  Sanitized =>
    LET rest == Without(Without(DecodedPath, 47), 92)
    IN  /\ (Len(rest) >= 2 /\ rest[2] = 58) => (Status = 403 /\ handler = "forbidden")
        /\ (~Contains(DecodedPath, s_dotdot) /\ ~(Len(rest) >= 2 /\ rest[2] = 58))
             => handler # "forbidden"

(***************************************************************************)
(* C26.  A request whose request line has an empty method or an empty      *)
(* target matches no route: it is answered 404 or 405, no file is looked   *)
(* up for it and no API handler runs.                                      *)
(***************************************************************************)
\* the request line, without its CRLF
RequestLine(r) == SubSeq(r, 1, StrStr(r, s_CRLF) - 1)

\* its method: what stands before the first space
LineMethod(r) == SubSeq(RequestLine(r), 1, FirstAt(RequestLine(r), 32) - 1)

\* its target: what stands between the first space and the second
LineTarget(r) ==
  LET l    == RequestLine(r)
      rest == SubSeq(l, FirstAt(l, 32) + 1, Len(l))
  IN  SubSeq(rest, 1, FirstAt(rest, 32) - 1)

\* a request without method or without target has been answered
MalformedAnswered ==
  Answered /\ (LineMethod(stream) = <<>> \/ LineTarget(stream) = <<>>)

C26_NoRoute ==
  MalformedAnswered =>
    /\ Status \in {404, 405}
    /\ handler \in {"post_not_found", "method_not_allowed"}
    /\ fsArgs = <<>>
    /\ invoked = <<>>

\* the same for the requests whose method is not GET
C26_NotGet ==
  (MalformedAnswered /\ LineMethod(stream) # s_GET) =>
    /\ Status \in {404, 405}
    /\ handler \in {"post_not_found", "method_not_allowed"}
    /\ fsArgs = <<>>
    /\ invoked = <<>>

(***************************************************************************)
(* C27.  A connection whose first read returns at least one byte gets      *)
(* exactly one response, sent when its handler returns, and is then        *)
(* closed; a connection whose first read returns nothing gets no response  *)
(* and is closed.                                                          *)
(***************************************************************************)
\* handle_request is running: before its first read, in the read loop of a
\* body, or waiting for a tool
InHandler == pc \in {"handle", "body", "system"}

C27_OneResponse ==
  [][/\ InHandler => sent = <<>>
     /\ (pc = "handle" /\ pc' # "handle") =>
          IF Len(inbuf') = Len(stream)
            THEN pc' = "close" /\ sent' = <<>>
            ELSE /\ pc' \in {"body", "system", "close"}
                 /\ pc' = "close" => Len(sent') = 1
     /\ (pc \in {"body", "system"} /\ pc' # pc) => (pc' = "close" /\ Len(sent') = 1)
     /\ pc = "close" =>
          \/ pc' = "close" /\ sent' = sent /\ clients' = clients
          \/ pc' = "loop" /\ sent' = <<>> /\ clients' = clients - 1]_vars

\* a save whose body came in a later read has its one response
C27_Witness ==
  /\ pc = "close"
  /\ handler = "handle_api_save"
  /\ recvs >= 2
  /\ Len(sent) = 1
  /\ clients = 1

(***************************************************************************)
(* C28.  No step of the server changes crissy-data.json unless it ends a   *)
(* POST /api/save with the answer 200, and none changes deploy.conf unless *)
(* it ends a POST /api/deploy-config with the answer 200; no other file    *)
(* changes at all, and a request answered with another status leaves every *)
(* file as it was.                                                         *)
(***************************************************************************)
\* the step ends the handling of a POST of this path with this handler and 200
Ends200(path, h) ==
  /\ pc # "close"
  /\ pc' = "close"
  /\ handler' = h
  /\ ReqMethod(stream) = s_POST
  /\ ReqPath(stream) = path
  /\ Len(sent') = 1
  /\ sent'[1].status = 200

C28_Frame ==
  [][/\ fs'[CrissyKey] # fs[CrissyKey] => Ends200(s_api_save, "handle_api_save")
     /\ fs'[ConfKey] # fs[ConfKey] =>
          Ends200(s_api_deploy_config, "handle_api_deploy_config_post")
     /\ \A k \in DOMAIN fs \ {CrissyKey, ConfKey} : fs'[k] = fs[k]
     /\ (pc # "close" /\ pc' = "close" /\ (sent' = <<>> \/ sent'[1].status # 200)) =>
          fs' = fs
     /\ ReqMethod(stream) # s_POST => fs' = fs]_vars

\* a POST /api/deploy-config of another value was answered 500 and the file
\* still holds repo=u
C28_Witness ==
  /\ Answered
  /\ handler = "handle_api_deploy_config_post"
  /\ Status = 500
  /\ body # <<>>
  /\ body # RepoBody(<<117>>)
  /\ fs[ConfKey] = File(s_conf_comment \o s_repo_eq \o <<117, 10>>)

(***************************************************************************)
(* C29.  For a Content-Length header of value L in 1..10 MiB the read loop *)
(* keeps bytes stored + bytes remaining = L: the body is the first bytes   *)
(* of what was sent, never more than L of them, bytes beyond L are         *)
(* ignored, and the loop goes on until L bytes are stored or a read        *)
(* returns nothing.                                                        *)
(***************************************************************************)
\* a body handler is at work on a request with such a header
ValidLength ==
  /\ handler \in BodyHandlers
  /\ pc \in {"body", "close"}
  /\ HasContentLength(stream)
  /\ DeclaredLength(stream) \in 1..MaxContentLength

\* the loop arithmetic
LoopKept ==
  /\ body = SubSeq(ReqBody(stream), 1, Len(body))
  /\ Len(body) <= DeclaredLength(stream)
  /\ pc = "body" => (remaining > 0 /\ Len(body) + remaining = DeclaredLength(stream))
  /\ (pc = "close" /\ bodyOk /\ "recv" \notin faults) => Len(body) = DeclaredLength(stream)

C29_LoopInvariant == ValidLength => LoopKept

\* the same for the requests in which the text "Content-Length:" stands
\* nowhere but at the start of a header line
C29_NoDecoy == (ValidLength /\ ~Decoyed) => LoopKept

(***************************************************************************)
(* C30.  Under every interleaving of the signal handler with main the      *)
(* handle of the listening socket is closed at most once: the handler      *)
(* closes it only when server_sock holds it and then marks it invalid, and *)
(* main closes it only while server_sock still holds it.                   *)
(***************************************************************************)
\* the number of close calls made on the handle socket() returned
Closes == Cardinality({i \in 1..Len(sock_calls) : sock_calls[i] = "close"})

C30_ClosedOnce == Closes <= 1

\* the handler's part holds: a call on the listening socket made while main
\* stands still is the handler's, it closes the handle server_sock holds and
\* leaves server_sock invalid
C30_HandlerGuarded ==
  [][(sock_calls' # sock_calls /\ pc' = pc) =>
       /\ server_sock = "open"
       /\ server_sock' = "invalid"
       /\ sock_calls' = Append(sock_calls, "close")]_vars

\* the handle is never closed a third time
C30_AtMostTwo == Closes <= 2
=============================================================================
